---- MODULE Spec2Model ----
(***************************************************************************)
(* Model of the SillyTavern card plugin:                                   *)
(*   - character_card_parser.py : PNG tEXt metadata codec                  *)
(*   - json_to_lorebook_yaml.py : LoreBookConverter                        *)
(* Python str values are sequences of code points, bytes values are        *)
(* sequences of 0..255.                                                    *)
(***************************************************************************)
EXTENDS Integers, Sequences, FiniteSets, TLC

\* ------------------------------------------------------------------------
\* Bounds of the model
\* ------------------------------------------------------------------------
\* number of tEXt chunks an input card carries between IHDR and IEND
MaxText == 2

\* ------------------------------------------------------------------------
\* Generic helpers
\* ------------------------------------------------------------------------
Max(S) == CHOOSE m \in S : \A x \in S : x <= m

Indices(s) == 1..Len(s)

SeqFrom(s, i) == SubSeq(s, i, Len(s))

\* concatenation of a sequence of sequences
RECURSIVE Flatten(_)
Flatten(ss) ==
    IF Len(ss) = 0 THEN <<>>
    ELSE IF Len(ss) = 1 THEN ss[1]
    ELSE LET h == Len(ss) \div 2
         IN Flatten(SubSeq(ss, 1, h)) \o Flatten(SubSeq(ss, h + 1, Len(ss)))

\* the indices of s, in order, that satisfy Test
IndicesWhere(s, Test(_)) ==
    LET Hit(i) == Test(i) IN SelectSeq([i \in Indices(s) |-> i], Hit)

SeqsUpTo(S, n) == UNION {[1..k -> S] : k \in 0..n}

\* ------------------------------------------------------------------------
\* Text encodings used by the codec
\* ------------------------------------------------------------------------
\* str.lower() on the code points a latin-1 decoded keyword can hold
LowerChar(c) ==
    IF (c >= 65 /\ c <= 90) \/ (c >= 192 /\ c <= 222 /\ c # 215) THEN c + 32 ELSE c

lower(s) == [i \in Indices(s) |-> LowerChar(s[i])]

\* str.encode('utf-8') of one Unicode scalar value
Utf8Char(c) ==
    IF c < 128 THEN <<c>>
    ELSE IF c < 2048 THEN <<192 + (c \div 64), 128 + (c % 64)>>
    ELSE IF c < 65536 THEN <<224 + (c \div 4096), 128 + ((c \div 64) % 64), 128 + (c % 64)>>
    ELSE <<240 + (c \div 262144), 128 + ((c \div 4096) % 64),
           128 + ((c \div 64) % 64), 128 + (c % 64)>>

utf8_encode(s) == Flatten([i \in Indices(s) |-> Utf8Char(s[i])])

IsCont(b, i) == i <= Len(b) /\ b[i] >= 128 /\ b[i] <= 191

\* number of bytes the sequence led by byte c has, 0 for an invalid lead
Utf8Width(c) ==
    IF c < 128 THEN 1
    ELSE IF c >= 194 /\ c <= 223 THEN 2
    ELSE IF c >= 224 /\ c <= 239 THEN 3
    ELSE IF c >= 240 /\ c <= 244 THEN 4 ELSE 0

\* the sequence that starts at i is well formed: the right number of
\* continuation bytes, no overlong form, no surrogate, nothing above U+10FFFF
Utf8WellFormed(b, i) ==
    LET w == Utf8Width(b[i]) IN
    /\ w > 0
    /\ \A k \in 1..(w - 1) : IsCont(b, i + k)
    /\ ~IsCont(b, i + w)
    /\ (b[i] = 224 => b[i + 1] >= 160)
    /\ (b[i] = 237 => b[i + 1] <= 159)
    /\ (b[i] = 240 => b[i + 1] >= 144)
    /\ (b[i] = 244 => b[i + 1] <= 143)

Utf8CodePoint(b, i) ==
    LET w == Utf8Width(b[i]) IN
    IF w = 1 THEN b[i]
    ELSE IF w = 2 THEN (b[i] - 192) * 64 + (b[i + 1] - 128)
    ELSE IF w = 3 THEN (b[i] - 224) * 4096 + (b[i + 1] - 128) * 64 + (b[i + 2] - 128)
    ELSE (b[i] - 240) * 262144 + (b[i + 1] - 128) * 4096
         + (b[i + 2] - 128) * 64 + (b[i + 3] - 128)

\* bytes.decode('utf-8'), strict: [ok, val].  A continuation byte never
\* leads a sequence, so the sequences start at the other bytes
utf8_decode(b) ==
    LET IsLead(i) == ~IsCont(b, i)
        leads == IndicesWhere(b, IsLead)
    IN IF ~IsCont(b, 1) /\ \A k \in Indices(leads) : Utf8WellFormed(b, leads[k])
       THEN [ok |-> TRUE, val |-> [k \in Indices(leads) |-> Utf8CodePoint(b, leads[k])]]
       ELSE [ok |-> FALSE, val |-> <<>>]

\* the Base64 alphabet: sextet -> ASCII code
B64Char(n) ==
    IF n < 26 THEN 65 + n
    ELSE IF n < 52 THEN 97 + (n - 26)
    ELSE IF n < 62 THEN 48 + (n - 52)
    ELSE IF n = 62 THEN 43 ELSE 47

\* ASCII code -> sextet, 64 for a character outside the alphabet
B64Val(c) ==
    IF c >= 65 /\ c <= 90 THEN c - 65
    ELSE IF c >= 97 /\ c <= 122 THEN c - 97 + 26
    ELSE IF c >= 48 /\ c <= 57 THEN c - 48 + 52
    ELSE IF c = 43 THEN 62
    ELSE IF c = 47 THEN 63 ELSE 64

B64Pad == 61

ByteAt(b, i) == IF i <= Len(b) THEN b[i] ELSE 0

\* base64.b64encode(bytes).decode('ascii'): the k-th output character
\* belongs to the group of three bytes g = (k-1) div 4
b64encode(b) ==
    [k \in 1..(4 * ((Len(b) + 2) \div 3)) |->
        LET g == (k - 1) \div 4
            r == (k - 1) % 4
            b1 == ByteAt(b, 3 * g + 1)
            b2 == ByteAt(b, 3 * g + 2)
            b3 == ByteAt(b, 3 * g + 3)
        IN IF r = 0 THEN B64Char(b1 \div 4)
           ELSE IF r = 1 THEN B64Char((b1 % 4) * 16 + (b2 \div 16))
           ELSE IF r = 2 THEN
             IF 3 * g + 2 > Len(b) THEN B64Pad ELSE B64Char((b2 % 16) * 4 + (b3 \div 64))
           ELSE IF 3 * g + 3 > Len(b) THEN B64Pad ELSE B64Char(b3 % 64)]

\* binascii.a2b_base64 in its default, non-strict mode.  Characters outside
\* the alphabet are skipped.  With q data characters of the current quad
\* read, a pad ends the input when q = 3, or when q = 2 and the character
\* before it (skipped ones aside) was a pad too; any other pad is skipped.
\* A quad left incomplete when the input runs out is an error.
A2b(s) ==
    LET Relevant(c) == c = B64Pad \/ B64Val(c) < 64
        f == SelectSeq(s, Relevant)
        q(p) == Cardinality({j \in 1..(p - 1) : f[j] # B64Pad}) % 4
        Ends(p) == /\ f[p] = B64Pad
                   /\ \/ q(p) = 3
                      \/ q(p) = 2 /\ p > 1 /\ f[p - 1] = B64Pad
        ended == \E p \in Indices(f) : Ends(p)
        stop == IF ended
                THEN CHOOSE p \in Indices(f) : Ends(p) /\ \A j \in 1..(p - 1) : ~Ends(j)
                ELSE Len(f) + 1
        IsData(c) == c # B64Pad
        d == SelectSeq(SubSeq(f, 1, stop - 1), IsData)
        n == Len(d)
    IN IF ~ended /\ n % 4 # 0 THEN [ok |-> FALSE, val |-> <<>>]
       ELSE [ok |-> TRUE,
             val |-> [k \in 1..((3 * n) \div 4) |->
                 LET g == (k - 1) \div 3
                     r == (k - 1) % 3
                 IN IF r = 0 THEN B64Val(d[4 * g + 1]) * 4 + (B64Val(d[4 * g + 2]) \div 16)
                    ELSE IF r = 1
                      THEN (B64Val(d[4 * g + 2]) % 16) * 16 + (B64Val(d[4 * g + 3]) \div 4)
                    ELSE (B64Val(d[4 * g + 3]) % 4) * 64 + B64Val(d[4 * g + 4])]]

\* base64.b64decode(str): a str argument must be pure ASCII
b64decode(s) ==
    IF \E i \in Indices(s) : s[i] > 127
    THEN [ok |-> FALSE, val |-> <<>>]
    ELSE A2b(s)

\* ------------------------------------------------------------------------
\* json.loads / json.dumps
\* A JSON value is a tagged pair: <<"obj", pairs>> with pairs a sequence of
\* <<key, value>> in dict insertion order, <<"list", seq>>, <<"str", seq>>,
\* <<"num", n>>, <<"bool", b>>, <<"null", 0>>.  Numbers are the integers;
\* \u escapes are single code points (no surrogate pairs).
\* ------------------------------------------------------------------------
JNull == <<"null", 0>>

JStr(s) == <<"str", s>>

JNum(n) == <<"num", n>>

JBool(b) == <<"bool", b>>

JList(xs) == <<"list", xs>>

JObj(pairs) == <<"obj", pairs>>

Tag(v) == v[1]

IsDict(v) == Tag(v) = "obj"

PFail == [ok |-> FALSE, v |-> JNull, i |-> 0]

POk(v, i) == [ok |-> TRUE, v |-> v, i |-> i]

At(s, i, c) == i <= Len(s) /\ s[i] = c

IsDigit(c) == c >= 48 /\ c <= 57

HexVal(c) ==
    IF IsDigit(c) THEN c - 48
    ELSE IF c >= 97 /\ c <= 102 THEN c - 87
    ELSE IF c >= 65 /\ c <= 70 THEN c - 55 ELSE 16

RECURSIVE SkipWs(_, _)
SkipWs(s, i) == IF i <= Len(s) /\ s[i] \in {32, 9, 10, 13} THEN SkipWs(s, i + 1) ELSE i

\* the character a backslash escape stands for, -1 when it is not an escape
Unescape(e) ==
    CASE e = 34 -> 34 [] e = 92 -> 92 [] e = 47 -> 47 [] e = 98 -> 8
      [] e = 102 -> 12 [] e = 110 -> 10 [] e = 114 -> 13 [] e = 116 -> 9
      [] OTHER -> -1

\* dict.__contains__ / dict.get / dict.__setitem__ on an insertion-ordered dict
HasKey(d, k) == \E i \in Indices(d[2]) : d[2][i][1] = k

KeyIndex(d, k) == CHOOSE i \in Indices(d[2]) : d[2][i][1] = k

Get(d, k, default) == IF HasKey(d, k) THEN d[2][KeyIndex(d, k)][2] ELSE default

DictSet(d, k, v) ==
    IF HasKey(d, k)
    THEN JObj([d[2] EXCEPT ![KeyIndex(d, k)] = <<k, v>>])
    ELSE JObj(Append(d[2], <<k, v>>))

RECURSIVE DictOf(_, _)
DictOf(pairs, d) ==
    IF pairs = <<>> THEN d
    ELSE DictOf(Tail(pairs), DictSet(d, Head(pairs)[1], Head(pairs)[2]))

\* py_scanstring, strict: i is the index after the opening quote
RECURSIVE ScanString(_, _, _)
ScanString(s, i, acc) ==
    IF i > Len(s) THEN PFail
    ELSE IF s[i] = 34 THEN POk(JStr(acc), i + 1)
    ELSE IF s[i] = 92 THEN
      IF i + 1 > Len(s) THEN PFail
      ELSE IF s[i + 1] = 117 THEN
        IF i + 5 <= Len(s) /\ \A k \in 2..5 : HexVal(s[i + k]) < 16
        THEN ScanString(s, i + 6,
                 Append(acc, HexVal(s[i + 2]) * 4096 + HexVal(s[i + 3]) * 256
                             + HexVal(s[i + 4]) * 16 + HexVal(s[i + 5])))
        ELSE PFail
      ELSE IF Unescape(s[i + 1]) >= 0
        THEN ScanString(s, i + 2, Append(acc, Unescape(s[i + 1])))
        ELSE PFail
    ELSE IF s[i] < 32 THEN PFail
    ELSE ScanString(s, i + 1, Append(acc, s[i]))

RECURSIVE ScanDigits(_, _, _)
ScanDigits(s, i, n) ==
    IF i <= Len(s) /\ IsDigit(s[i]) THEN ScanDigits(s, i + 1, n * 10 + (s[i] - 48))
    ELSE [n |-> n, i |-> i]

\* NUMBER_RE, integer part: -?(0|[1-9][0-9]*)
ScanNumber(s, i) ==
    LET neg == At(s, i, 45)
        j == IF neg THEN i + 1 ELSE i
    IN IF j > Len(s) \/ ~IsDigit(s[j]) THEN PFail
       ELSE IF s[j] = 48 THEN POk(JNum(0), j + 1)
       ELSE LET r == ScanDigits(s, j, 0)
            IN POk(JNum(IF neg THEN 0 - r.n ELSE r.n), r.i)

IsLit(s, i, lit) ==
    i + Len(lit) - 1 <= Len(s) /\ SubSeq(s, i, i + Len(lit) - 1) = lit

RECURSIVE ParseValue(_, _)
RECURSIVE ParseMembers(_, _, _)
RECURSIVE ParseElements(_, _, _)
\* scan_once: the value that starts at index i
ParseValue(s, i) ==
    IF i > Len(s) THEN PFail
    ELSE IF s[i] = 34 THEN ScanString(s, i + 1, <<>>)
    ELSE IF s[i] = 123 THEN
      LET j == SkipWs(s, i + 1)
      IN IF At(s, j, 125) THEN POk(JObj(<<>>), j + 1) ELSE ParseMembers(s, j, <<>>)
    ELSE IF s[i] = 91 THEN
      LET j == SkipWs(s, i + 1)
      IN IF At(s, j, 93) THEN POk(JList(<<>>), j + 1) ELSE ParseElements(s, j, <<>>)
    ELSE IF IsLit(s, i, <<110, 117, 108, 108>>) THEN POk(JNull, i + 4)
    ELSE IF IsLit(s, i, <<116, 114, 117, 101>>) THEN POk(JBool(TRUE), i + 4)
    ELSE IF IsLit(s, i, <<102, 97, 108, 115, 101>>) THEN POk(JBool(FALSE), i + 5)
    ELSE ScanNumber(s, i)

\* JSONObject: i is at the opening quote of the next key
ParseMembers(s, i, pairs) ==
    IF ~At(s, i, 34) THEN PFail
    ELSE LET k == ScanString(s, i + 1, <<>>)
      IN IF ~k.ok THEN PFail
         ELSE LET j == SkipWs(s, k.i)
           IN IF ~At(s, j, 58) THEN PFail
              ELSE LET r == ParseValue(s, SkipWs(s, j + 1))
                IN IF ~r.ok THEN PFail
                   ELSE LET ps == Append(pairs, <<k.v[2], r.v>>)
                            e == SkipWs(s, r.i)
                     IN IF At(s, e, 125) THEN POk(DictOf(ps, JObj(<<>>)), e + 1)
                        ELSE IF At(s, e, 44) THEN ParseMembers(s, SkipWs(s, e + 1), ps)
                        ELSE PFail

\* JSONArray: i is at the first character of the next element
ParseElements(s, i, xs) ==
    LET r == ParseValue(s, i)
    IN IF ~r.ok THEN PFail
       ELSE LET ys == Append(xs, r.v)
                e == SkipWs(s, r.i)
         IN IF At(s, e, 93) THEN POk(JList(ys), e + 1)
            ELSE IF At(s, e, 44) THEN ParseElements(s, SkipWs(s, e + 1), ys)
            ELSE PFail

\* json.loads(str): [ok, v]; ok = FALSE is json.JSONDecodeError
json_loads(s) ==
    LET r == ParseValue(s, SkipWs(s, 1))
    IN IF r.ok /\ SkipWs(s, r.i) = Len(s) + 1
       THEN [ok |-> TRUE, v |-> r.v]
       ELSE [ok |-> FALSE, v |-> JNull]

HexDigit(n) == IF n < 10 THEN 48 + n ELSE 87 + n

\* encode_basestring_ascii without the surrounding quotes
EscapeChar(c) ==
    CASE c = 34 -> <<92, 34>> [] c = 92 -> <<92, 92>> [] c = 10 -> <<92, 110>>
      [] c = 13 -> <<92, 114>> [] c = 9 -> <<92, 116>> [] c = 8 -> <<92, 98>>
      [] c = 12 -> <<92, 102>>
      [] OTHER ->
           IF c >= 32 /\ c <= 126 THEN <<c>>
           ELSE <<92, 117, HexDigit(c \div 4096), HexDigit((c \div 256) % 16),
                  HexDigit((c \div 16) % 16), HexDigit(c % 16)>>

DumpStr(s) == <<34>> \o Flatten([i \in Indices(s) |-> EscapeChar(s[i])]) \o <<34>>

RECURSIVE DumpNat(_)
DumpNat(n) == IF n < 10 THEN <<48 + n>> ELSE Append(DumpNat(n \div 10), 48 + (n % 10))

DumpInt(n) == IF n < 0 THEN <<45>> \o DumpNat(0 - n) ELSE DumpNat(n)

\* ", ".join(parts)
RECURSIVE JoinComma(_)
JoinComma(parts) ==
    IF parts = <<>> THEN <<>>
    ELSE IF Len(parts) = 1 THEN parts[1]
    ELSE parts[1] \o <<44, 32>> \o JoinComma(Tail(parts))

\* json.dumps(v) with the default separators and ensure_ascii=True
RECURSIVE json_dumps(_)
json_dumps(v) ==
    CASE Tag(v) = "null" -> <<110, 117, 108, 108>>
      [] Tag(v) = "bool" -> IF v[2] THEN <<116, 114, 117, 101>> ELSE <<102, 97, 108, 115, 101>>
      [] Tag(v) = "num" -> DumpInt(v[2])
      [] Tag(v) = "str" -> DumpStr(v[2])
      [] Tag(v) = "list" ->
           <<91>> \o JoinComma([i \in Indices(v[2]) |-> json_dumps(v[2][i])]) \o <<93>>
      [] Tag(v) = "obj" ->
           <<123>> \o JoinComma([i \in Indices(v[2]) |->
                         DumpStr(v[2][i][1]) \o <<58, 32>> \o json_dumps(v[2][i][2])])
           \o <<125>>

\* Python == on decoded values: dicts compare without regard to key order
RECURSIVE Canon(_)
Canon(v) ==
    CASE Tag(v) = "obj" -> <<"obj", {<<v[2][i][1], Canon(v[2][i][2])>> : i \in Indices(v[2])}>>
      [] Tag(v) = "list" -> <<"list", [i \in Indices(v[2]) |-> Canon(v[2][i])]>>
      [] OTHER -> v

\* ------------------------------------------------------------------------
\* PNG container.  A chunk is the pair <<chunk_type, chunk_data>> pypng
\* yields; a byte buffer is its first 8 bytes (head) followed by frames
\* (length, type, data, CRC).
\* ------------------------------------------------------------------------
PngSignature == <<137, 80, 78, 71, 13, 10, 26, 10>>

\* zlib.crc32(chunk_type + chunk_data), kept symbolic as the pair it digests
Crc32(type, data) == <<type, data>>

\* the bytes emitted for one chunk when the stream is rebuilt
Frame(chunk) ==
    [length |-> Len(chunk[2]), type |-> chunk[1], data |-> chunk[2],
     crc |-> Crc32(chunk[1], chunk[2])]

Returned(v) == [kind |-> "return", val |-> v]

ReturnedNone == [kind |-> "none", val |-> <<>>]

Raised(e) == [kind |-> "raise", val |-> e]

\* png.Reader.chunks(): every frame must be complete and carry the right
\* CRC; iteration ends with the IEND chunk and fails when the stream runs
\* out before it
RECURSIVE ReadFrames(_, _)
ReadFrames(frames, acc) ==
    IF frames = <<>> THEN Raised("png.ChunkError")
    ELSE LET f == Head(frames) IN
      IF f.length # Len(f.data) \/ f.crc # Crc32(f.type, f.data)
      THEN Raised("png.ChunkError")
      ELSE IF f.type = "IEND" THEN Returned(Append(acc, <<f.type, f.data>>))
      ELSE ReadFrames(Tail(frames), Append(acc, <<f.type, f.data>>))

\* variant: the frames are read without looking at the signature
chunks_noSignature(image_bytes) == ReadFrames(image_bytes.frames, <<>>)

chunks(image_bytes) ==
    IF image_bytes.head # PngSignature THEN Raised("png.FormatError")
    ELSE ReadFrames(image_bytes.frames, <<>>)

kw_chara == <<99, 104, 97, 114, 97>>

kw_ccv3 == <<99, 99, 118, 51>>

k_spec == <<115, 112, 101, 99>>

k_spec_version == <<115, 112, 101, 99, 95, 118, 101, 114, 115, 105, 111, 110>>

s_chara_card_v3 == <<99, 104, 97, 114, 97, 95, 99, 97, 114, 100, 95, 118, 51>>

s_3_0 == <<51, 46, 48>>

\* chunk_data.split(b'\x00', 1) unpacked into two names, each decoded as
\* iso-8859-1 (byte value = code point); no NUL byte is a ValueError
_decode_text_chunk(chunk_data) ==
    IF \E i \in Indices(chunk_data) : chunk_data[i] = 0
    THEN LET p == CHOOSE i \in Indices(chunk_data) :
                    chunk_data[i] = 0 /\ \A j \in 1..(i - 1) : chunk_data[j] # 0
         IN [ok |-> TRUE, keyword |-> SubSeq(chunk_data, 1, p - 1),
             text |-> SeqFrom(chunk_data, p + 1)]
    ELSE [ok |-> FALSE, keyword |-> <<>>, text |-> <<>>]

_encode_text_chunk(keyword, text) == keyword \o <<0>> \o text

\* variant: nothing is filtered out
KeepChunk_keepAll(chunk) == TRUE

\* variant: the keyword is compared without lower-casing it
KeepChunk_caseSensitive(chunk) ==
    IF chunk[1] = "tEXt"
    THEN LET d == _decode_text_chunk(chunk[2])
         IN IF d.ok THEN d.keyword \notin {kw_chara, kw_ccv3} ELSE TRUE
    ELSE TRUE

\* variant: only the chara chunks are filtered out
KeepChunk_keepCcv3(chunk) ==
    IF chunk[1] = "tEXt"
    THEN LET d == _decode_text_chunk(chunk[2])
         IN IF d.ok THEN lower(d.keyword) # kw_chara ELSE TRUE
    ELSE TRUE

\* the filter of write_metadata: TRUE for a chunk that is kept
KeepChunk(chunk) ==
    IF chunk[1] = "tEXt"
    THEN LET d == _decode_text_chunk(chunk[2])
         IN IF d.ok THEN lower(d.keyword) \notin {kw_chara, kw_ccv3} ELSE TRUE
    ELSE TRUE

\* the v3 chunk as a sequence of zero or one chunk (v3_chunk_tuple or None)
V3Chunks(data) ==
    LET parsed == json_loads(data)
    IN IF parsed.ok /\ IsDict(parsed.v)
       THEN LET v3_data_dict == DictSet(DictSet(parsed.v, k_spec, JStr(s_chara_card_v3)),
                                        k_spec_version, JStr(s_3_0))
                v3_json_string == json_dumps(v3_data_dict)
            IN <<(<<"tEXt", _encode_text_chunk(kw_ccv3,
                                 b64encode(utf8_encode(v3_json_string)))>>)>>
       ELSE <<>>

\* variant: the text is encoded as iso-8859-1 before Base64
V2Chunk_latin1(data) == <<"tEXt", _encode_text_chunk(kw_chara, b64encode(data))>>

V2Chunk(data) == <<"tEXt", _encode_text_chunk(kw_chara, b64encode(utf8_encode(data)))>>

\* index of the first IEND chunk, 0 for Python's -1
IendIndex(new_chunks) ==
    IF \E i \in Indices(new_chunks) : new_chunks[i][1] = "IEND"
    THEN CHOOSE i \in Indices(new_chunks) :
           new_chunks[i][1] = "IEND" /\ \A j \in 1..(i - 1) : new_chunks[j][1] # "IEND"
    ELSE 0

\* variant: the new chunks always go to the end of the list
InsertChunks_append(new_chunks, added) == new_chunks \o added

InsertChunks(new_chunks, added) ==
    LET iend_index == IendIndex(new_chunks)
    IN IF iend_index # 0
       THEN SubSeq(new_chunks, 1, iend_index - 1) \o added \o SeqFrom(new_chunks, iend_index)
       ELSE new_chunks \o added

write_metadata(image_bytes, data) ==
    IF image_bytes.head # PngSignature THEN Raised("png.Error")
    ELSE LET original_chunks == chunks(image_bytes) IN
      IF original_chunks.kind = "raise" THEN original_chunks
      ELSE LET new_chunks == SelectSeq(original_chunks.val, KeepChunk)
               all == InsertChunks(new_chunks, <<V2Chunk(data)>> \o V3Chunks(data))
           IN Returned([head |-> PngSignature,
                        frames |-> [i \in Indices(all) |-> Frame(all[i])]])

\* text_chunks_data: lower-cased keyword -> text, a later chunk overwriting
\* an earlier one with the same key
RECURSIVE TextChunksData(_, _)
TextChunksData(cs, acc) ==
    IF cs = <<>> THEN acc
    ELSE LET c == Head(cs)
             d == _decode_text_chunk(c[2])
         IN IF c[1] = "tEXt" /\ d.ok
            THEN TextChunksData(Tail(cs),
                     [k \in DOMAIN acc \cup {lower(d.keyword)} |->
                        IF k = lower(d.keyword) THEN d.text ELSE acc[k]])
            ELSE TextChunksData(Tail(cs), acc)

\* variant: a payload that does not decode is reported as "no metadata"
DecodePayload_lenient(text) ==
    LET raw == b64decode(text)
    IN IF ~raw.ok THEN ReturnedNone
       ELSE LET str == utf8_decode(raw.val)
            IN IF str.ok THEN Returned(str.val) ELSE ReturnedNone

\* base64.b64decode(text).decode('utf-8'), any failure raised as ValueError
DecodePayload(text) ==
    LET raw == b64decode(text)
    IN IF ~raw.ok THEN Raised("ValueError")
       ELSE LET str == utf8_decode(raw.val)
            IN IF str.ok THEN Returned(str.val) ELSE Raised("ValueError")

\* variant: the legacy chunk is preferred over the current one
read_metadata_charaFirst(image_bytes) ==
    LET cs == chunks(image_bytes) IN
    IF cs.kind = "raise" THEN cs
    ELSE LET text_chunks_data == TextChunksData(cs.val, <<>>)
         IN IF DOMAIN text_chunks_data = {} THEN ReturnedNone
            ELSE IF kw_chara \in DOMAIN text_chunks_data
              THEN DecodePayload(text_chunks_data[kw_chara])
            ELSE IF kw_ccv3 \in DOMAIN text_chunks_data
              THEN DecodePayload(text_chunks_data[kw_ccv3])
            ELSE ReturnedNone

read_metadata(image_bytes) ==
    LET cs == chunks(image_bytes) IN
    IF cs.kind = "raise" THEN cs
    ELSE LET text_chunks_data == TextChunksData(cs.val, <<>>)
         IN IF DOMAIN text_chunks_data = {} THEN ReturnedNone
            ELSE IF kw_ccv3 \in DOMAIN text_chunks_data
              THEN DecodePayload(text_chunks_data[kw_ccv3])
            ELSE IF kw_chara \in DOMAIN text_chunks_data
              THEN DecodePayload(text_chunks_data[kw_chara])
            ELSE ReturnedNone

\* ------------------------------------------------------------------------
\* Inputs of the codec: payload texts and card files
\* ------------------------------------------------------------------------
\* '{}'
D_empty_obj == <<123, 125>>

\* '{"name": "\xe9"}'
D_card == <<123, 34, 110, 97, 109, 101, 34, 58, 32, 34, 233, 34, 125>>

\* '{"spec":"v2","a":[1]}'
D_spec_v2 == <<123, 34, 115, 112, 101, 99, 34, 58, 34, 118, 50, 34, 44, 34, 97, 34, 58, 91, 49, 93, 125>>

\* '{"a":1,"a":2}'
D_dup_key == <<123, 34, 97, 34, 58, 49, 44, 34, 97, 34, 58, 50, 125>>

\* '["\xe9"]'
D_list == <<91, 34, 233, 34, 93>>

\* 'null'
D_null == <<110, 117, 108, 108>>

\* 'hi \xe9'
D_plain == <<104, 105, 32, 233>>

\* '{"a": 1'
D_truncated == <<123, 34, 97, 34, 58, 32, 49>>

\* ''
D_empty == <<>>

\* '{"v": 2}'
D_old_v2 == <<123, 34, 118, 34, 58, 32, 50, 125>>

\* '{"v": 3}'
D_old_v3 == <<123, 34, 118, 34, 58, 32, 51, 125>>

\* '{"V": 2}'
D_old_V2 == <<123, 34, 86, 34, 58, 32, 50, 125>>

\* '{"V": 3}'
D_old_V3 == <<123, 34, 86, 34, 58, 32, 51, 125>>

\* 'Chara'
kw_Chara == <<67, 104, 97, 114, 97>>

\* 'CCV3'
kw_CCV3 == <<67, 67, 86, 51>>

\* 'Comment'
kw_Comment == <<67, 111, 109, 109, 101, 110, 116>>

\* 'hi'
t_hi == <<104, 105>>

\* 'e30'
t_bad_padding == <<101, 51, 48>>

\* '/w=='
t_bad_utf8 == <<47, 119, 61, 61>>

\* 'A'
t_one_char == <<65>>

\* the texts handed to write_metadata: JSON objects, JSON values that are
\* not objects, and texts that are not JSON
Payloads ==
    {D_empty_obj, D_card, D_spec_v2, D_dup_key, D_list, D_null,
     D_plain, D_truncated, D_empty}

TextChunk(keyword, text) == <<"tEXt", _encode_text_chunk(keyword, text)>>

Encoded(data) == b64encode(utf8_encode(data))

\* text chunks a card file may already carry
TextPool ==
    {TextChunk(kw_chara, Encoded(D_old_v2)),
     TextChunk(kw_ccv3, Encoded(D_old_v3)),
     TextChunk(kw_Chara, Encoded(D_old_V2)),
     TextChunk(kw_CCV3, Encoded(D_old_V3)),
     TextChunk(kw_ccv3, t_bad_padding),
     TextChunk(kw_ccv3, t_bad_utf8),
     TextChunk(kw_chara, t_one_char),
     TextChunk(kw_Comment, t_hi),
     <<"tEXt", kw_ccv3>>,
     <<"zTXt", _encode_text_chunk(kw_ccv3, t_hi)>>}

IHDR == <<"IHDR", <<0, 0, 0, 1, 0, 0, 0, 1, 8, 6, 0, 0, 0>>>>

IDAT == <<"IDAT", <<120, 156>>>>

IEND == <<"IEND", <<>>>>

FramesOf(cs) == [i \in Indices(cs) |-> Frame(cs[i])]

CardFile(texts) ==
    [head |-> PngSignature, frames |-> FramesOf(<<IHDR>> \o texts \o <<IDAT, IEND>>)]

ValidCards == {CardFile(texts) : texts \in SeqsUpTo(TextPool, MaxText)}

JpegHead == <<255, 216, 255, 224, 0, 16, 74, 70>>

SampleFrames == FramesOf(<<IHDR, TextChunk(kw_ccv3, Encoded(D_old_v3)), IDAT, IEND>>)

\* buffers that are not PNG containers: wrong or short signature, a stream
\* that ends before IEND, a frame with a wrong CRC or a wrong length
BrokenFiles ==
    {[head |-> <<>>, frames |-> <<>>],
     [head |-> <<137, 80, 78>>, frames |-> <<>>],
     [head |-> JpegHead, frames |-> SampleFrames],
     [head |-> [PngSignature EXCEPT ![8] = 13], frames |-> SampleFrames],
     [head |-> PngSignature, frames |-> SubSeq(SampleFrames, 1, 3)],
     [head |-> PngSignature, frames |-> [SampleFrames EXCEPT ![2].crc = <<>>]],
     [head |-> PngSignature, frames |-> [SampleFrames EXCEPT ![2].length = 1]]}

InputFiles == ValidCards \cup BrokenFiles

\* ------------------------------------------------------------------------
\* LoreBookConverter (json_to_lorebook_yaml.py): Python values and strings
\* ------------------------------------------------------------------------
\* 'data'
k_data == <<100, 97, 116, 97>>

\* 'character_book'
k_character_book == <<99, 104, 97, 114, 97, 99, 116, 101, 114, 95, 98, 111, 111, 107>>

\* 'entries'
k_entries == <<101, 110, 116, 114, 105, 101, 115>>

\* 'id'
k_id == <<105, 100>>

\* 'comment'
k_comment == <<99, 111, 109, 109, 101, 110, 116>>

\* 'keys'
k_keys == <<107, 101, 121, 115>>

\* 'secondary_keys'
k_secondary_keys == <<115, 101, 99, 111, 110, 100, 97, 114, 121, 95, 107, 101, 121, 115>>

\* 'position'
k_position == <<112, 111, 115, 105, 116, 105, 111, 110>>

\* 'content'
k_content == <<99, 111, 110, 116, 101, 110, 116>>

\* 'insertion_order'
k_insertion_order == <<105, 110, 115, 101, 114, 116, 105, 111, 110, 95, 111, 114, 100, 101, 114>>

\* 'extensions'
k_extensions == <<101, 120, 116, 101, 110, 115, 105, 111, 110, 115>>

\* 'prevent_recursion'
k_prevent_recursion == <<112, 114, 101, 118, 101, 110, 116, 95, 114, 101, 99, 117, 114, 115, 105, 111, 110>>

\* 'probability'
k_probability == <<112, 114, 111, 98, 97, 98, 105, 108, 105, 116, 121>>

\* 'enabled'
k_enabled == <<101, 110, 97, 98, 108, 101, 100>>

\* 'after_char'
s_after_char == <<97, 102, 116, 101, 114, 95, 99, 104, 97, 114>>

\* 'before_char'
s_before_char == <<98, 101, 102, 111, 114, 101, 95, 99, 104, 97, 114>>

\* 'before_prompt'
s_before_prompt == <<98, 101, 102, 111, 114, 101, 95, 112, 114, 111, 109, 112, 116>>

\* 'after_prompt'
s_after_prompt == <<97, 102, 116, 101, 114, 95, 112, 114, 111, 109, 112, 116>>

\* 'sys_start'
s_sys_start == <<115, 121, 115, 95, 115, 116, 97, 114, 116>>

\* 'sys_end'
s_sys_end == <<115, 121, 115, 95, 101, 110, 100>>

\* 'keywords'
s_keywords == <<107, 101, 121, 119, 111, 114, 100, 115>>

\* 'unknown'
s_unknown == <<117, 110, 107, 110, 111, 119, 110>>

\* 'default'
s_default == <<100, 101, 102, 97, 117, 108, 116>>

\* 'True'
s_True == <<84, 114, 117, 101>>

\* 'False'
s_False == <<70, 97, 108, 115, 101>>

\* 'None'
s_None == <<78, 111, 110, 101>>

\* '0'
s_0 == <<48>>

\* '1'
s_1 == <<49>>

\* 'entry_'
s_entry_ == <<101, 110, 116, 114, 121, 95>>

\* '\u4ece'
s_cong == <<20174>>

\* '\u751f\u6210'
s_shengcheng == <<29983, 25104>>

\* '\u9ed8\u8ba4\u6761\u76ee'
s_default_name == <<40664, 35748, 26465, 30446>>

\* '\u65e0\u6cd5\u4ece\u6e90\u6570\u636e\u63d0\u53d6\u6709\u6548\u5185\u5bb9\uff0c\u8fd9\u662f\u4e00\u4e2a\u81ea\u52a8\u751f\u6210\u7684\u9ed8\u8ba4\u6761\u76ee\u3002'
s_default_content == <<26080, 27861, 20174, 28304, 25968, 25454, 25552, 21462, 26377, 25928, 20869, 23481, 65292, 36825, 26159, 19968, 20010, 33258, 21160, 29983, 25104, 30340, 40664, 35748, 26465, 30446, 12290>>

\* sep.join(parts)
RECURSIVE Join(_, _)
Join(sep, parts) ==
    IF Len(parts) = 0 THEN <<>>
    ELSE IF Len(parts) = 1 THEN parts[1]
    ELSE LET h == Len(parts) \div 2
         IN Join(sep, SubSeq(parts, 1, h)) \o sep \o Join(sep, SubSeq(parts, h + 1, Len(parts)))

\* bool(v)
Truthy(v) ==
    CASE Tag(v) = "null" -> FALSE
      [] Tag(v) = "bool" -> v[2]
      [] Tag(v) = "num" -> v[2] # 0
      [] OTHER -> Len(v[2]) > 0

\* str(v) and repr(v); the repr of a str is given for text without quotes,
\* backslashes or control characters
RECURSIVE PyStr(_)
RECURSIVE PyRepr(_)
PyStr(v) ==
    CASE Tag(v) = "str" -> v[2]
      [] Tag(v) = "num" -> DumpInt(v[2])
      [] Tag(v) = "bool" -> IF v[2] THEN s_True ELSE s_False
      [] Tag(v) = "null" -> s_None
      [] Tag(v) = "list" ->
           <<91>> \o Join(<<44, 32>>, [i \in Indices(v[2]) |-> PyRepr(v[2][i])]) \o <<93>>
      [] Tag(v) = "obj" ->
           <<123>> \o Join(<<44, 32>>, [i \in Indices(v[2]) |->
                          PyRepr(JStr(v[2][i][1])) \o <<58, 32>> \o PyRepr(v[2][i][2])])
           \o <<125>>

PyRepr(v) == IF Tag(v) = "str" THEN <<39>> \o v[2] \o <<39>> ELSE PyStr(v)

\* a Python number: <<"num", n>> is the int n, <<"float", n, d>> the float n/d
PyFloat(n, d) == <<"float", n, d>>

\* the value of a number in hundredths
Hundredths(x) == IF Tag(x) = "float" THEN (x[2] * 100) \div x[3] ELSE x[2] * 100

\* float(str) for a text made of optional blanks, a sign and digits; any
\* other text is taken as one float() rejects
FloatOfStr(s0) ==
    LET NotBlank(c) == c \notin {32, 9, 10, 13}
        s == SelectSeq(s0, NotBlank)
        signed == Len(s) > 0 /\ s[1] \in {43, 45}
        digits == IF signed THEN Tail(s) ELSE s
    IN IF Len(digits) > 0 /\ \A i \in Indices(digits) : IsDigit(digits[i])
       THEN [kind |-> "ok",
             n |-> LET m == ScanDigits(digits, 1, 0).n
                   IN IF signed /\ s[1] = 45 THEN 0 - m ELSE m,
             float |-> TRUE]
       ELSE [kind |-> "ValueError", n |-> 0, float |-> FALSE]

\* "if not isinstance(x, (int, float)): x = float(x)": bool is an int;
\* float() of None, a list or a dict is a TypeError
Numeric(v) ==
    CASE Tag(v) = "num" -> [kind |-> "ok", n |-> v[2], float |-> FALSE]
      [] Tag(v) = "bool" -> [kind |-> "ok", n |-> IF v[2] THEN 1 ELSE 0, float |-> FALSE]
      [] Tag(v) = "str" -> FloatOfStr(v[2])
      [] OTHER -> [kind |-> "TypeError", n |-> 0, float |-> FALSE]

\* quote_value: a str is wrapped in double quotes with " and newline
\* escaped and carriage returns removed; any other value is returned as is
QuoteChar(c) ==
    IF c = 34 THEN <<92, 34>>
    ELSE IF c = 10 THEN <<92, 110>>
    ELSE IF c = 13 THEN <<>>
    ELSE <<c>>

quote_value(value) ==
    IF Tag(value) = "str"
    THEN JStr(<<34>> \o Flatten([i \in Indices(value[2]) |-> QuoteChar(value[2][i])]) \o <<34>>)
    ELSE value

\* clean_content: tabs of a str become two blanks
clean_content(content) ==
    IF Tag(content) = "str"
    THEN JStr(Flatten([i \in Indices(content[2]) |->
                 IF content[2][i] = 9 THEN <<32, 32>> ELSE <<content[2][i]>>]))
    ELSE content

\* position_map.get(pos_value, "sys_start"); True == 1 and False == 0 as
\* dict keys.  Not defined for a list or a dict, which are unhashable.
convert_position(pos_value) ==
    IF \/ (Tag(pos_value) = "num" /\ pos_value[2] = 1)
       \/ (Tag(pos_value) = "bool" /\ pos_value[2])
       \/ (Tag(pos_value) = "str" /\ pos_value[2] \in {s_1, s_after_prompt})
    THEN s_sys_end
    ELSE s_sys_start

Hashable(v) == Tag(v) \notin {"list", "obj"}

\* list(x) for a value that is neither a str nor a list, [str(x)] when x is
\* not iterable
AsList(x) ==
    IF Tag(x) = "obj" THEN [i \in Indices(x[2]) |-> JStr(x[2][i][1])]
    ELSE <<JStr(PyStr(x))>>

\* variant: every element is joined, the empty ones too
JoinTruthy_all(xs) == Join(<<38>>, [i \in Indices(xs) |-> PyStr(xs[i])])

\* "&".join(str(k) for k in xs if k)
JoinTruthy(xs) == Join(<<38>>, [i \in Indices(SelectSeq(xs, Truthy)) |->
                                   PyStr(SelectSeq(xs, Truthy)[i])])

process_match(keys, keysecondary) ==
    IF ~Truthy(keys) THEN <<>>
    ELSE LET klist == IF Tag(keys) = "str" THEN <<keys>>
                      ELSE IF Tag(keys) = "list" THEN keys[2]
                      ELSE AsList(keys)
             primary == JoinTruthy(klist)
             secondary ==
                 IF Tag(keysecondary) = "str" THEN JoinTruthy(<<keysecondary>>)
                 ELSE IF ~Truthy(keysecondary) THEN <<>>
                 ELSE IF Tag(keysecondary) = "list" THEN JoinTruthy(keysecondary[2])
                 ELSE JoinTruthy(AsList(keysecondary))
         IN IF Len(primary) > 0 /\ Len(secondary) > 0
            THEN primary \o <<126>> \o secondary
            ELSE primary

\* ------------------------------------------------------------------------
\* LoreBookConverter.process_entry
\* ------------------------------------------------------------------------
NoTrigger == [kind |-> "none"]

\* insertion_order / probability after the isinstance-or-float() step:
\* a ValueError falls back to 100, a TypeError leaves the try block
Coerced(v) ==
    LET c == Numeric(v)
    IN IF c.kind = "ValueError" THEN [kind |-> "ok", n |-> 100, float |-> FALSE] ELSE c

\* variant: the raw probability is not clamped
Clamp_none(n) == n

\* max(0, min(raw, 100))
Clamp(n) == IF n > 100 THEN 100 ELSE IF n < 0 THEN 0 ELSE n

\* variant: a disabled entry is converted like any other
EntryDisabled_never(entry) == FALSE

\* "if not entry.get('enabled', True)"
EntryDisabled(entry) == ~Truthy(Get(entry, k_enabled, JBool(TRUE)))

process_entry(entry_id, entry) ==
    IF ~IsDict(entry) THEN NoTrigger
    ELSE LET raw_entry_name == Get(entry, k_comment, JStr(s_entry_ \o PyStr(entry_id)))
             keys == Get(entry, k_keys, JList(<<>>))
             keysecondary == Get(entry, k_secondary_keys, JList(<<>>))
             pos_value == Get(entry, k_position, JStr(s_after_char))
             raw_entry_content == clean_content(Get(entry, k_content, JStr(<<>>)))
             entry_order == Coerced(Get(entry, k_insertion_order, JNum(100)))
             extensions == Get(entry, k_extensions, JObj(<<>>))
         IN IF \/ ~Hashable(pos_value)
               \/ entry_order.kind # "ok"
               \/ ~IsDict(extensions)
            THEN NoTrigger
            ELSE LET entry_probability_raw ==
                         Coerced(Get(extensions, k_probability, JNum(100)))
                 IN IF entry_probability_raw.kind # "ok" THEN NoTrigger
                    ELSE IF EntryDisabled(entry) THEN NoTrigger
                    ELSE [kind |-> "trigger",
                          name |-> quote_value(raw_entry_name),
                          type |-> quote_value(JStr(s_keywords)),
                          match |-> quote_value(JStr(process_match(keys, keysecondary))),
                          conditional |-> quote_value(JStr(<<>>)),
                          priority |-> IF entry_order.float
                                       THEN PyFloat(100 - entry_order.n, 1)
                                       ELSE JNum(100 - entry_order.n),
                          block |-> Truthy(Get(extensions, k_prevent_recursion, JBool(FALSE))),
                          probability |-> PyFloat(Clamp(entry_probability_raw.n), 100),
                          position |-> quote_value(JStr(convert_position(pos_value))),
                          content |-> quote_value(raw_entry_content)]

\* ------------------------------------------------------------------------
\* json.dumps(data, ensure_ascii=False, indent=2), os.path helpers
\* ------------------------------------------------------------------------
\* encode_basestring: only ", \ and control characters are escaped
EscapeCharUnicode(c) ==
    IF c >= 127 THEN <<c>> ELSE EscapeChar(c)

DumpStrUnicode(s) ==
    <<34>> \o Flatten([i \in Indices(s) |-> EscapeCharUnicode(s[i])]) \o <<34>>

Blanks(n) == [i \in 1..n |-> 32]

RECURSIVE DumpsIndent(_, _)
DumpsIndent(v, level) ==
    LET nl == <<10>> \o Blanks(2 * (level + 1))
        sep == <<44>> \o nl
    IN CASE Tag(v) = "str" -> DumpStrUnicode(v[2])
         [] Tag(v) = "list" ->
              IF Len(v[2]) = 0 THEN <<91, 93>>
              ELSE <<91>> \o nl
                   \o Join(sep, [i \in Indices(v[2]) |-> DumpsIndent(v[2][i], level + 1)])
                   \o <<10>> \o Blanks(2 * level) \o <<93>>
         [] Tag(v) = "obj" ->
              IF Len(v[2]) = 0 THEN <<123, 125>>
              ELSE <<123>> \o nl
                   \o Join(sep, [i \in Indices(v[2]) |->
                          DumpStrUnicode(v[2][i][1]) \o <<58, 32>>
                          \o DumpsIndent(v[2][i][2], level + 1)])
                   \o <<10>> \o Blanks(2 * level) \o <<125>>
         [] OTHER -> json_dumps(v)

\* os.path.basename on a POSIX path
basename(path) ==
    IF \E i \in Indices(path) : path[i] = 47
    THEN SeqFrom(path, Max({i \in Indices(path) : path[i] = 47}) + 1)
    ELSE path

\* os.path.splitext(name)[0]: the extension starts at the last dot that
\* follows a character other than a dot
splitext_root(name) ==
    LET dots == {i \in Indices(name) :
                   name[i] = 46 /\ \E j \in 1..(i - 1) : name[j] # 46}
    IN IF dots = {} THEN name ELSE SubSeq(name, 1, Max(dots) - 1)

\* ------------------------------------------------------------------------
\* LoreBookConverter.extract_entries_from_json
\* A candidate is [case, id, entry]: the branch that found it, the entry_id
\* and the entry handed to process_entry.  The result carries, next to the
\* triggers, the candidate each trigger was made from (origins; not part of
\* the program's state) and the number added to entries_processed.
\* ------------------------------------------------------------------------
Candidate(case, id, entry) == [case |-> case, id |-> id, entry |-> entry]

\* "if trigger: triggers.append(trigger); self.entries_processed += 1", for
\* the results process_entry gave for the candidates
Appended(cands, results) ==
    LET IsHit(i) == results[i].kind = "trigger"
        hits == IndicesWhere(cands, IsHit)
    IN [kind |-> "return",
        triggers |-> [k \in Indices(hits) |-> results[hits[k]]],
        origins |-> [k \in Indices(hits) |-> cands[hits[k]]],
        processed |-> Len(hits)]

\* the loop "trigger = self.process_entry(id, entry); if trigger: append"
Processed(cands) ==
    Appended(cands, [i \in Indices(cands) |-> process_entry(cands[i].id, cands[i].entry)])

IsListAt(d, k) == IsDict(d) /\ HasKey(d, k) /\ Tag(Get(d, k, JNull)) = "list"

IsDictAt(d, k) == IsDict(d) /\ HasKey(d, k) /\ IsDict(Get(d, k, JNull))

\* case -1: data['data']['character_book']['entries'] is a list
HasDataBookEntries(d) ==
    /\ IsDictAt(d, k_data)
    /\ IsDictAt(Get(d, k_data, JNull), k_character_book)
    /\ IsListAt(Get(Get(d, k_data, JNull), k_character_book, JNull), k_entries)

DataBookEntries(d) == Get(Get(Get(d, k_data, JNull), k_character_book, JNull), k_entries, JNull)[2]

\* case 0: data['character_book']['entries'] is a list
HasBookEntries(d) ==
    IsDictAt(d, k_character_book) /\ IsListAt(Get(d, k_character_book, JNull), k_entries)

BookEntries(d) == Get(Get(d, k_character_book, JNull), k_entries, JNull)[2]

\* case 2: the document has one of the entry attributes
LooksLikeEntry(d) ==
    \E k \in {k_keys, k_comment, k_content, k_insertion_order} : HasKey(d, k)

\* case -1 calls entry.get('id', i) before process_entry: an item that is
\* not a dict raises AttributeError out of the loop, after the items before
\* it were processed
ExtractDataBook(entries_list) ==
    LET NotDict(i) == ~IsDict(entries_list[i])
        bad == IndicesWhere(entries_list, NotDict)
        upto == IF Len(bad) = 0 THEN Len(entries_list) ELSE bad[1] - 1
    IN [Processed([i \in 1..upto |->
                      Candidate("data.character_book.entries",
                                Get(entries_list[i], k_id, JNum(i - 1)), entries_list[i])])
          EXCEPT !.kind = IF Len(bad) = 0 THEN "return" ELSE "raise"]

\* variant: the top-level entries map is looked at before the card paths
ExtractOrder_entriesFirst(d) == <<"entries", "data.character_book.entries", "character_book.entries">>

\* the order in which the three entries paths are tried
ExtractOrder(d) == <<"data.character_book.entries", "character_book.entries", "entries">>

PathMatches(d, path) ==
    CASE path = "data.character_book.entries" -> HasDataBookEntries(d)
      [] path = "character_book.entries" -> HasBookEntries(d)
      [] path = "entries" -> IsDictAt(d, k_entries)

ExtractPath(d, path) ==
    CASE path = "data.character_book.entries" -> ExtractDataBook(DataBookEntries(d))
      [] path = "character_book.entries" ->
           Processed([i \in Indices(BookEntries(d)) |->
               Candidate(path, JNum(i - 1), BookEntries(d)[i])])
      [] path = "entries" ->
           LET entries == Get(d, k_entries, JNull)[2]
           IN Processed([i \in Indices(entries) |->
                  Candidate(path, JStr(entries[i][1]), entries[i][2])])

\* case 5: the entry that wraps the whole document
DefaultEntry(d, src_file, probability) ==
    LET base == IF Len(src_file) > 0 THEN basename(src_file) ELSE s_unknown
    IN JObj(<<(<<k_keys, JList(<<JStr(splitext_root(base))>>)>>),
              (<<k_comment, JStr(s_cong \o base \o s_shengcheng)>>),
              (<<k_content, JStr(DumpsIndent(d, 0))>>),
              (<<k_insertion_order, JNum(100)>>),
              (<<k_extensions, JObj(<<(<<k_probability, JNum(probability)>>)>>)>>)>>)

\* variant: the wrapping entry carries probability 50
default_entry_half(d, src_file) == DefaultEntry(d, src_file, 50)

default_entry(d, src_file) == DefaultEntry(d, src_file, 100)

\* "if found_entries: return triggers" after case 3 and after case 4, else
\* what case 5 returns
FirstFound(stages) ==
    IF stages[1].processed > 0 THEN stages[1]
    ELSE IF stages[2].processed > 0 THEN stages[2]
    ELSE stages[3]

\* cases 2 to 5
ExtractByShape(d, src_file) ==
    IF LooksLikeEntry(d) THEN Processed(<<Candidate("document", JStr(s_1), d)>>)
    ELSE
      LET pairs == d[2]
          IsDictField(i) == IsDict(pairs[i][2])
          dict_fields == IndicesWhere(pairs, IsDictField)
          by_field == Processed([k \in Indices(dict_fields) |->
                          Candidate("field", JStr(pairs[dict_fields[k]][1]),
                                    pairs[dict_fields[k]][2])])
          IsListField(i) == Tag(pairs[i][2]) = "list"
          array_fields == IndicesWhere(pairs, IsListField)
          ItemsOf(i) ==
              LET array == pairs[i][2][2]
                  IsDictItem(j) == IsDict(array[j])
                  ds == IndicesWhere(array, IsDictItem)
              IN [k \in Indices(ds) |->
                     Candidate("array", JStr(pairs[i][1] \o <<95>> \o DumpInt(ds[k])),
                               array[ds[k]])]
          by_array == Processed(Flatten([k \in Indices(array_fields) |->
                                            ItemsOf(array_fields[k])]))
      IN FirstFound(<<by_field, by_array,
                      Processed(<<Candidate("default", JStr(s_default),
                                            default_entry(d, src_file))>>)>>)

extract_entries_from_json(d, src_file) ==
    LET order == ExtractOrder(d)
        Matches(i) == PathMatches(d, order[i])
        matching == IndicesWhere(order, Matches)
    IN IF Len(matching) > 0 THEN ExtractPath(d, order[matching[1]])
       ELSE ExtractByShape(d, src_file)

\* per-scalar work of ForceDoubleQuoteDumper.represent_scalar: the text a
\* str scalar stands for in the saved document
Contains(s, t) == \E i \in 1..(Len(s) - Len(t) + 1) : SubSeq(s, i, i + Len(t) - 1) = t

RECURSIVE Unescape2(_, _, _)
\* str.replace(from, to) for a two-character from
Unescape2(s, from, to) ==
    IF Len(s) < 2 THEN s
    ELSE IF SubSeq(s, 1, 2) = from THEN to \o Unescape2(SeqFrom(s, 3), from, to)
    ELSE <<s[1]>> \o Unescape2(Tail(s), from, to)

represent_scalar(value) ==
    IF Tag(value) # "str" THEN value
    ELSE LET t == value[2] IN
      IF Len(t) > 0 /\ t[1] = 34 /\ t[Len(t)] = 34
      THEN LET inner == SubSeq(t, 2, Len(t) - 1)
           IN IF Contains(inner, <<92, 110>>)
              THEN JStr(Unescape2(Unescape2(inner, <<92, 110>>, <<10>>), <<92, 34>>, <<34>>))
              ELSE JStr(inner)
      ELSE value

\* ------------------------------------------------------------------------
\* LoreBookConverter.convert_json_to_yaml
\* ------------------------------------------------------------------------
FallbackTrigger ==
    [kind |-> "trigger",
     name |-> JStr(s_default_name),
     type |-> JStr(s_keywords),
     match |-> JStr(<<>>),
     conditional |-> JStr(<<>>),
     priority |-> JNum(50),
     block |-> FALSE,
     probability |-> PyFloat(1, 1),
     position |-> JStr(s_sys_start),
     content |-> JStr(s_default_content)]

EmptyYaml == [world_state |-> JObj(<<>>), user_state |-> JList(<<>>), trigger |-> <<>>]

\* the rest of convert_json_to_yaml once extract_entries_from_json has
\* returned or raised r
Converted_from(r) ==
    IF r.kind = "raise"
    THEN [ret |-> "False", yaml_data |-> EmptyYaml,
          entries_processed |-> r.processed, origin |-> <<>>]
    ELSE IF Len(r.triggers) = 0
    THEN [ret |-> "True", yaml_data |-> [EmptyYaml EXCEPT !.trigger = <<FallbackTrigger>>],
          entries_processed |-> r.processed + 1,
          origin |-> <<Candidate("fallback", JNull, JNull)>>]
    ELSE [ret |-> "True", yaml_data |-> [EmptyYaml EXCEPT !.trigger = r.triggers],
          entries_processed |-> r.processed, origin |-> r.origins]

\* [ret, yaml_data, entries_processed, origin] after the call
convert_json_to_yaml(d, src_file) == Converted_from(extract_entries_from_json(d, src_file))

\* ------------------------------------------------------------------------
\* Inputs of the converter: entries and documents
\* ------------------------------------------------------------------------
\* {"keys": ["k1", "k2"], "secondary_keys": "no", "comment": "Sword", "content": "a\\"b\\n\\tc"}
E_plain ==
    JObj(<<(<<k_keys, JList(<<JStr(<<107, 49>>), JStr(<<107, 50>>)>>)>>), (<<k_secondary_keys, JStr(<<110, 111>>)>>), (<<k_comment, JStr(<<83, 119, 111, 114, 100>>)>>), (<<k_content, JStr(<<97, 34, 98, 10, 9, 99>>)>>)>>)

\* {"comment": "off", "enabled": false, "content": "x"}
E_off ==
    JObj(<<(<<k_comment, JStr(<<111, 102, 102>>)>>), (<<k_enabled, JBool(FALSE)>>), (<<k_content, JStr(<<120>>)>>)>>)

\* {"enabled": true, "id": 7, "insertion_order": 30, "position": 1, "extensions": {"probability": 150, "prevent_recursion": true}}
E_on ==
    JObj(<<(<<k_enabled, JBool(TRUE)>>), (<<k_id, JNum(7)>>), (<<k_insertion_order, JNum(30)>>), (<<k_position, JNum(1)>>), (<<k_extensions, JObj(<<(<<k_probability, JNum(150)>>), (<<k_prevent_recursion, JBool(TRUE)>>)>>)>>)>>)

\* {}
E_empty ==
    JObj(<<>>)

\* {"insertion_order": "abc", "position": "after_prompt", "extensions": {"probability": -10}}
E_order_text ==
    JObj(<<(<<k_insertion_order, JStr(<<97, 98, 99>>)>>), (<<k_position, JStr(<<97, 102, 116, 101, 114, 95, 112, 114, 111, 109, 112, 116>>)>>), (<<k_extensions, JObj(<<(<<k_probability, JNum(-10)>>)>>)>>)>>)

\* {"insertion_order": null}
E_order_null ==
    JObj(<<(<<k_insertion_order, JNull>>)>>)

\* {"extensions": "x"}
E_ext_text ==
    JObj(<<(<<k_extensions, JStr(<<120>>)>>)>>)

\* {"position": [1]}
E_pos_list ==
    JObj(<<(<<k_position, JList(<<JNum(1)>>)>>)>>)

\* {"enabled": 0, "comment": "zero"}
E_falsy ==
    JObj(<<(<<k_enabled, JNum(0)>>), (<<k_comment, JStr(<<122, 101, 114, 111>>)>>)>>)

\* 5
E_number ==
    JNum(5)

\* "s"
E_text ==
    JStr(<<115>>)

\* {"comment": "top", "content": "t"}
E_top ==
    JObj(<<(<<k_comment, JStr(<<116, 111, 112>>)>>), (<<k_content, JStr(<<116>>)>>)>>)

\* {"comment": "topoff", "enabled": false}
E_top_off ==
    JObj(<<(<<k_comment, JStr(<<116, 111, 112, 111, 102, 102>>)>>), (<<k_enabled, JBool(FALSE)>>)>>)

\* 'f1'
f_1 == <<102, 49>>

\* 'f2'
f_2 == <<102, 50>>

\* 'f3'
f_3 == <<102, 51>>

\* 'f4'
f_4 == <<102, 52>>

\* 'items'
k_items == <<105, 116, 101, 109, 115>>

\* '9'
k_9 == <<57>>

\* 'name'
k_name == <<110, 97, 109, 101>>

\* 'x'
s_x == <<120>>

\* 'cards/a.json'
src_path == <<99, 97, 114, 100, 115, 47, 97, 46, 106, 115, 111, 110>>


\* the longest entries collection of an input document
MaxEntries == 2

EntryPool ==
    {E_plain, E_off, E_on, E_empty, E_order_text, E_order_null, E_ext_text,
     E_pos_list, E_falsy, E_number, E_text}

SmallPool == {E_plain, E_off, E_on, E_number}

Field(k, v) == <<k, v>>

\* {"data": {"character_book": {"entries": L}}} and, with a map M, the same
\* document with a top-level "entries": M after it
BookDoc(L) ==
    JObj(<<Field(k_data, JObj(<<Field(k_character_book, JObj(<<Field(k_entries, JList(L))>>))>>))>>)

EntryMaps ==
    {<<Field(k_9, E_top)>>, <<Field(k_9, E_top_off)>>, <<Field(k_9, E_top), Field(k_name, E_plain)>>}

BookDocs == {BookDoc(L) : L \in SeqsUpTo(EntryPool, MaxEntries)}

BothDocs ==
    {JObj(BookDoc(L)[2] \o <<Field(k_entries, JObj(M))>>) :
        L \in SeqsUpTo(SmallPool, MaxEntries), M \in EntryMaps}
    \cup {JObj(<<Field(k_entries, JObj(M))>> \o BookDoc(L)[2]) :
        L \in SeqsUpTo(SmallPool, 1), M \in EntryMaps}

\* {"character_book": {"entries": L}}
CardBookDocs ==
    {JObj(<<Field(k_character_book, JObj(<<Field(k_entries, JList(L))>>))>>) :
        L \in SeqsUpTo(SmallPool, MaxEntries)}

FieldNames == <<f_1, f_2, f_3, f_4>>

\* {"entries": {"f1": L[1], "f2": L[2], ...}}
EntriesDocs ==
    {JObj(<<Field(k_entries, JObj([i \in Indices(L) |-> Field(FieldNames[i], L[i])]))>>) :
        L \in SeqsUpTo(SmallPool, MaxEntries)}

\* the document is itself an entry
EntryDocs == {e \in EntryPool \cup {E_top, E_top_off} : IsDict(e) /\ LooksLikeEntry(e)}

\* {"f1": L[1], "f2": L[2], ...}: dict-valued top-level fields
FieldDocs ==
    {JObj([i \in Indices(L) |-> Field(FieldNames[i], L[i])]) :
        L \in SeqsUpTo({E_empty, E_off, E_ext_text, E_number}, MaxEntries)}

\* {"items": L}: a list-valued top-level field
ArrayDocs ==
    {JObj(<<Field(k_items, JList(L))>>) : L \in SeqsUpTo({E_empty, E_off, E_text}, MaxEntries)}

\* documents of no recognised shape
PlainDocs ==
    {JObj(<<>>),
     JObj(<<Field(k_name, JStr(s_x))>>),
     JObj(<<Field(k_data, JNum(5))>>),
     JObj(<<Field(k_entries, JList(<<E_plain>>))>>),
     JObj(<<Field(k_character_book, JStr(s_x))>>),
     JObj(<<Field(k_data, JObj(<<Field(k_character_book, JObj(<<Field(k_entries, JObj(<<>>))>>))>>))>>)}

Docs ==
    BookDocs \cup BothDocs \cup CardBookDocs \cup EntriesDocs \cup EntryDocs
        \cup FieldDocs \cup ArrayDocs \cup PlainDocs

\* the source_file argument: absent, or the path of the JSON file
Sources == {<<>>, src_path}

\* ------------------------------------------------------------------------
\* Inputs of process_entry: entries that vary a few fields at a time
\* ------------------------------------------------------------------------
\* insertion_order: 30, 250, -20, 0, "30", "abc", "", null, [1], {}, true
OrderValues ==
    {JNum(30),
     JNum(250),
     JNum(-20),
     JNum(0),
     JStr(<<51, 48>>),
     JStr(<<97, 98, 99>>),
     JStr(<<>>),
     JNull,
     JList(<<JNum(1)>>),
     JObj(<<>>),
     JBool(TRUE)}

\* position: 0, 1, 2, "0", "1", "after_prompt", "after_char", "before_char", "before_prompt", "weird", null, true, false, [1], {}
PositionValues ==
    {JNum(0),
     JNum(1),
     JNum(2),
     JStr(<<48>>),
     JStr(<<49>>),
     JStr(<<97, 102, 116, 101, 114, 95, 112, 114, 111, 109, 112, 116>>),
     JStr(<<97, 102, 116, 101, 114, 95, 99, 104, 97, 114>>),
     JStr(<<98, 101, 102, 111, 114, 101, 95, 99, 104, 97, 114>>),
     JStr(<<98, 101, 102, 111, 114, 101, 95, 112, 114, 111, 109, 112, 116>>),
     JStr(<<119, 101, 105, 114, 100>>),
     JNull,
     JBool(TRUE),
     JBool(FALSE),
     JList(<<JNum(1)>>),
     JObj(<<>>)}

\* extensions: {}, {"probability": 150}, {"probability": -10}, {"probability": 50}, {"probability": 0}, {"probability": "40"}, {"probability": "zz"}, {"probability": null}, {"probability": true}, {"probability": 50, "prevent_recursion": true}, "x"
ExtensionsValues ==
    {JObj(<<>>),
     JObj(<<Field(<<112, 114, 111, 98, 97, 98, 105, 108, 105, 116, 121>>, JNum(150))>>),
     JObj(<<Field(<<112, 114, 111, 98, 97, 98, 105, 108, 105, 116, 121>>, JNum(-10))>>),
     JObj(<<Field(<<112, 114, 111, 98, 97, 98, 105, 108, 105, 116, 121>>, JNum(50))>>),
     JObj(<<Field(<<112, 114, 111, 98, 97, 98, 105, 108, 105, 116, 121>>, JNum(0))>>),
     JObj(<<Field(<<112, 114, 111, 98, 97, 98, 105, 108, 105, 116, 121>>, JStr(<<52, 48>>))>>),
     JObj(<<Field(<<112, 114, 111, 98, 97, 98, 105, 108, 105, 116, 121>>, JStr(<<122, 122>>))>>),
     JObj(<<Field(<<112, 114, 111, 98, 97, 98, 105, 108, 105, 116, 121>>, JNull)>>),
     JObj(<<Field(<<112, 114, 111, 98, 97, 98, 105, 108, 105, 116, 121>>, JBool(TRUE))>>),
     JObj(<<Field(<<112, 114, 111, 98, 97, 98, 105, 108, 105, 116, 121>>, JNum(50)), Field(<<112, 114, 101, 118, 101, 110, 116, 95, 114, 101, 99, 117, 114, 115, 105, 111, 110>>, JBool(TRUE))>>),
     JStr(<<120>>)}

\* keys: ["k1", "k2"], "solo", [], "", ["", "k", 0], ["n", 3], 5, 0, {"a": 1, "b": 2}, null
KeysValues ==
    {JList(<<JStr(<<107, 49>>), JStr(<<107, 50>>)>>),
     JStr(<<115, 111, 108, 111>>),
     JList(<<>>),
     JStr(<<>>),
     JList(<<JStr(<<>>), JStr(<<107>>), JNum(0)>>),
     JList(<<JStr(<<110>>), JNum(3)>>),
     JNum(5),
     JNum(0),
     JObj(<<Field(<<97>>, JNum(1)), Field(<<98>>, JNum(2))>>),
     JNull}

\* secondary_keys: ["s1", "s2"], "no", [], [""], 7, null
SecondaryValues ==
    {JList(<<JStr(<<115, 49>>), JStr(<<115, 50>>)>>),
     JStr(<<110, 111>>),
     JList(<<>>),
     JList(<<JStr(<<>>)>>),
     JNum(7),
     JNull}

EnabledValues == {JBool(TRUE), JBool(FALSE)}

\* the field k absent, or present with a value of V
Opt(k, V) == {<<>>} \cup {<<Field(k, v)>> : v \in V}

Entries ==
    {JObj(o \o p \o e) :
        o \in Opt(k_insertion_order, OrderValues),
        p \in Opt(k_position, PositionValues),
        e \in Opt(k_enabled, EnabledValues)}
    \cup {JObj(x \o e) :
        x \in Opt(k_extensions, ExtensionsValues), e \in Opt(k_enabled, EnabledValues)}
    \cup {JObj(k \o q) :
        k \in Opt(k_keys, KeysValues), q \in Opt(k_secondary_keys, SecondaryValues)}
    \cup {E_number, E_text}

\* the entry_id argument: an index or a map key
EntryIds == {JNum(0), JStr(k_9)}

\* ------------------------------------------------------------------------
\* CardConverterPlugin._extract_character_info (main.py)
\* ------------------------------------------------------------------------
\* 'description'
k_description == <<100, 101, 115, 99, 114, 105, 112, 116, 105, 111, 110>>

\* 'first_mes'
k_first_mes == <<102, 105, 114, 115, 116, 95, 109, 101, 115>>

\* 'begin_dialogs'
k_begin_dialogs == <<98, 101, 103, 105, 110, 95, 100, 105, 97, 108, 111, 103, 115>>

\* 'greeting'
k_greeting == <<103, 114, 101, 101, 116, 105, 110, 103>>

\* 'example_dialog'
k_example_dialog == <<101, 120, 97, 109, 112, 108, 101, 95, 100, 105, 97, 108, 111, 103>>

\* 'char_greeting'
k_char_greeting == <<99, 104, 97, 114, 95, 103, 114, 101, 101, 116, 105, 110, 103>>

\* 'alternate_greetings'
k_alternate_greetings == <<97, 108, 116, 101, 114, 110, 97, 116, 101, 95, 103, 114, 101, 101, 116, 105, 110, 103, 115>>

\* "name: "
s_name_ == <<110, 97, 109, 101, 58, 32>>

\* "prompt: "
s_prompt_ == <<112, 114, 111, 109, 112, 116, 58, 32>>

\* "first_mes: "
s_first_mes_ == <<102, 105, 114, 115, 116, 95, 109, 101, 115, 58, 32>>

\* the first element of a non-empty list, else the empty text
FirstOrEmpty(v) == IF Tag(v) = "list" /\ Len(v[2]) > 0 THEN v[2][1] ELSE JStr(<<>>)

\* the if / elif chain that sets first_mes_raw
first_mes_raw(d) ==
    IF HasKey(d, k_first_mes) THEN Get(d, k_first_mes, JNull)
    ELSE IF HasKey(d, k_begin_dialogs)
    THEN IF Tag(Get(d, k_begin_dialogs, JNull)) = "str"
         THEN Get(d, k_begin_dialogs, JNull)
         ELSE FirstOrEmpty(Get(d, k_begin_dialogs, JNull))
    ELSE IF HasKey(d, k_greeting) THEN Get(d, k_greeting, JNull)
    ELSE IF HasKey(d, k_example_dialog) /\ Truthy(Get(d, k_example_dialog, JNull))
    THEN FirstOrEmpty(Get(d, k_example_dialog, JNull))
    ELSE IF HasKey(d, k_char_greeting) THEN Get(d, k_char_greeting, JNull)
    ELSE IF HasKey(d, k_alternate_greetings) /\ Truthy(Get(d, k_alternate_greetings, JNull))
    THEN FirstOrEmpty(Get(d, k_alternate_greetings, JNull))
    ELSE JStr(<<>>)

\* the local quote_value of _extract_character_info, on a str
QuotedText(t) == quote_value(JStr(t))[2]

\* the three lines of txt_content
SummaryText(name, description, first_mes) ==
    s_name_ \o QuotedText(name) \o <<10, 10>>
        \o s_prompt_ \o QuotedText(description) \o <<10, 10>>
        \o s_first_mes_ \o QuotedText(first_mes)

_extract_character_info(d) ==
    SummaryText(PyStr(Get(d, k_name, JStr(<<>>))),
                PyStr(Get(d, k_description, JStr(<<>>))),
                PyStr(first_mes_raw(d)))

\* documents that give each source of first_mes not at all, empty, or populated
SourceValues ==
    <<{JStr(<<>>), JStr(<<70>>)},
      {JList(<<>>), JList(<<JStr(<<66, 49>>), JStr(<<66, 50>>)>>)},
      {JStr(<<>>), JStr(<<71>>)},
      {JList(<<>>), JList(<<JStr(<<69>>)>>)},
      {JStr(<<>>), JStr(<<67>>)},
      {JList(<<>>), JList(<<JStr(<<65>>)>>)}>>

SourceKeys ==
    <<k_first_mes, k_begin_dialogs, k_greeting, k_example_dialog, k_char_greeting,
      k_alternate_greetings>>

CharacterDocs ==
    {JObj(<<Field(k_name, JStr(s_x))>> \o f1 \o f2 \o f3 \o f4 \o f5 \o f6) :
        f1 \in Opt(SourceKeys[1], SourceValues[1]),
        f2 \in Opt(SourceKeys[2], SourceValues[2]),
        f3 \in Opt(SourceKeys[3], SourceValues[3]),
        f4 \in Opt(SourceKeys[4], SourceValues[4]),
        f5 \in Opt(SourceKeys[5], SourceValues[5]),
        f6 \in Opt(SourceKeys[6], SourceValues[6])}

\* ------------------------------------------------------------------------
\* The state machines.  Spec: a caller holds a buffer and calls
\* write_metadata (keeping the returned buffer) or read_metadata on it.
\* LoreSpec: a caller holds a LoreBookConverter and calls
\* convert_json_to_yaml on documents
\* ------------------------------------------------------------------------
VARIABLES
    image,              \* the buffer the caller holds
    op,                 \* the last call: "none", "write", "read", "convert", ...
    src,                \* the buffer that call was given
    data,               \* the text that call was given (write only)
    out,                \* what the call returned or raised
    yaml_data,          \* LoreBookConverter.yaml_data
    entries_processed,  \* LoreBookConverter.entries_processed
    json_data,          \* the document the converter's caller has
    source_file,        \* the source_file the converter's caller has
    ret,                \* what convert_json_to_yaml returned: "True", "False", or "none"
    origin,             \* the candidate each trigger of yaml_data was made from
    entry_id,           \* the entry_id process_entry's caller has
    entry,              \* the entry process_entry's caller has
    trigger,            \* what process_entry returned
    txt_content         \* what _extract_character_info returned

codec_vars == <<image, op, src, data, out>>

lore_vars == <<yaml_data, entries_processed, json_data, source_file, ret, origin>>

entry_vars == <<entry_id, entry, trigger>>

vars == <<codec_vars, lore_vars, entry_vars, txt_content>>

\* nothing has been handed to process_entry or _extract_character_info
NoEntry ==
    /\ entry_id = JNum(0)
    /\ entry = JObj(<<>>)
    /\ trigger = NoTrigger
    /\ txt_content = <<>>

\* LoreBookConverter.__init__
NewConverter ==
    /\ yaml_data = EmptyYaml
    /\ entries_processed = 0
    /\ ret = "none"
    /\ origin = <<>>

Init ==
    /\ image \in InputFiles
    /\ op = "none"
    /\ src = image
    /\ data = <<>>
    /\ out = ReturnedNone
    /\ json_data = JObj(<<>>)
    /\ source_file = <<>>
    /\ NewConverter
    /\ NoEntry

Write(D) ==
    LET r == write_metadata(image, D) IN
    /\ op' = "write"
    /\ src' = image
    /\ data' = D
    /\ out' = r
    /\ image' = IF r.kind = "return" THEN r.val ELSE image
    /\ UNCHANGED <<lore_vars, entry_vars, txt_content>>

Read ==
    /\ op' = "read"
    /\ src' = image
    /\ data' = <<>>
    /\ out' = read_metadata(image)
    /\ UNCHANGED <<image, lore_vars, entry_vars, txt_content>>

Next ==
    \/ \E D \in Payloads : Write(D)
    \/ Read

Spec == Init /\ [][Next]_vars

\* the converter alone: a caller has a document and a source_file, makes a
\* LoreBookConverter and calls convert_json_to_yaml
LoreInit ==
    /\ image = CardFile(<<>>)
    /\ op = "none"
    /\ src = image
    /\ data = <<>>
    /\ out = ReturnedNone
    /\ json_data \in Docs
    /\ source_file \in Sources
    /\ NewConverter
    /\ NoEntry

\* a call of convert_json_to_yaml that ends as r
Convert(r) ==
    /\ op' = "convert"
    /\ yaml_data' = r.yaml_data
    /\ entries_processed' = r.entries_processed
    /\ ret' = r.ret
    /\ origin' = r.origin
    /\ UNCHANGED <<image, src, data, out, json_data, source_file, entry_vars, txt_content>>

LoreNext == Convert(convert_json_to_yaml(json_data, source_file))

LoreSpec == LoreInit /\ [][LoreNext]_vars

\* process_entry alone: a caller has an entry_id and an entry and calls
\* process_entry on a converter
EntryInit ==
    /\ image = CardFile(<<>>)
    /\ op = "none"
    /\ src = image
    /\ data = <<>>
    /\ out = ReturnedNone
    /\ json_data = JObj(<<>>)
    /\ source_file = <<>>
    /\ NewConverter
    /\ entry_id \in EntryIds
    /\ entry \in Entries
    /\ trigger = NoTrigger
    /\ txt_content = <<>>

\* a call of process_entry that returns r
Process(r) ==
    /\ op' = "process_entry"
    /\ trigger' = r
    /\ UNCHANGED <<image, src, data, out, lore_vars, entry_id, entry, txt_content>>

EntryNext == Process(process_entry(entry_id, entry))

EntrySpec == EntryInit /\ [][EntryNext]_vars

\* _extract_character_info alone: a caller has the JSON of a card and
\* asks for its summary
InfoInit ==
    /\ image = CardFile(<<>>)
    /\ op = "none"
    /\ src = image
    /\ data = <<>>
    /\ out = ReturnedNone
    /\ json_data \in CharacterDocs
    /\ source_file = <<>>
    /\ NewConverter
    /\ NoEntry

\* a call of _extract_character_info that returns r
Extract(r) ==
    /\ op' = "extract"
    /\ txt_content' = r
    /\ UNCHANGED <<image, src, data, out, lore_vars, entry_vars>>

InfoNext == Extract(_extract_character_info(json_data))

InfoSpec == InfoInit /\ [][InfoNext]_vars

\* ------------------------------------------------------------------------
\* Vocabulary of the codec properties
\* ------------------------------------------------------------------------
\* frame i of the buffer is a text chunk whose keyword, lower-cased, is kw
IsReserved(buf, i, kw) ==
    /\ buf.frames[i].type = "tEXt"
    /\ \E p \in Indices(buf.frames[i].data) :
         /\ buf.frames[i].data[p] = 0
         /\ \A j \in 1..(p - 1) : buf.frames[i].data[j] # 0
         /\ lower(SubSeq(buf.frames[i].data, 1, p - 1)) = kw

ReservedAt(buf, kw) == {i \in Indices(buf.frames) : IsReserved(buf, i, kw)}

\* the text of the last chunk of the buffer with keyword kw
LastText(buf, kw) ==
    LET fdata == buf.frames[Max(ReservedAt(buf, kw))].data
    IN SeqFrom(fdata, Len(kw) + 2)

IsValidContainer(buf) == chunks(buf).kind = "return"

IsJson(text) == json_loads(text).ok

IsJsonObject(text) == json_loads(text).ok /\ IsDict(json_loads(text).v)

\* a decoded document without its spec and spec_version members
WithoutSpec(v) ==
    LET NotSpec(pair) == pair[1] \notin {k_spec, k_spec_version}
    IN IF IsDict(v) THEN JObj(SelectSeq(v[2], NotSpec)) ELSE v

\* the text Base64-decodes and the bytes are well-formed UTF-8
Decodes(text) == b64decode(text).ok /\ utf8_decode(b64decode(text).val).ok

Decoded(text) == utf8_decode(b64decode(text).val).val

SameOutcome(a, b) == a.kind = b.kind /\ a.val = b.val

FormatErrors == {"png.Error", "png.FormatError", "png.ChunkError"}

\* ------------------------------------------------------------------------
\* C1  Round trip: after write_metadata(c, D) on a valid container with a
\* JSON text D, read_metadata of the result returns a JSON text whose parsed
\* value equals the parsed value of D; when the ccv3 chunk is the one read
\* the members spec and spec_version may differ, and nothing else.
\* ------------------------------------------------------------------------
C1_RoundTrip ==
    (op = "write" /\ out.kind = "return" /\ IsJson(data)) =>
        LET r == read_metadata(out.val) IN
        /\ r.kind = "return"
        /\ IsJson(r.val)
        /\ IF ReservedAt(out.val, kw_ccv3) # {}
           THEN Canon(WithoutSpec(json_loads(r.val).v)) = Canon(WithoutSpec(json_loads(data).v))
           ELSE Canon(json_loads(r.val).v) = Canon(json_loads(data).v)

\* a JSON text that is not an object was written over a card that carried
\* reserved chunks, and a later read gives it back
C1_Witness ==
    /\ op = "write" /\ out.kind = "return"
    /\ IsJson(data) /\ ~IsJsonObject(data)
    /\ ReservedAt(src, kw_ccv3) # {}
    /\ SameOutcome(read_metadata(out.val), Returned(data))

\* ------------------------------------------------------------------------
\* C2  Idempotent re-write: writing D again to the result of
\* write_metadata(c, D) leaves the number of chara chunks and of ccv3 chunks
\* unchanged, and read_metadata gives the same result on both containers.
\* ------------------------------------------------------------------------
C2_IdempotentRewrite ==
    (op = "write" /\ out.kind = "return") =>
        LET again == write_metadata(out.val, data) IN
        /\ again.kind = "return"
        /\ Cardinality(ReservedAt(again.val, kw_chara))
             = Cardinality(ReservedAt(out.val, kw_chara))
        /\ Cardinality(ReservedAt(again.val, kw_ccv3))
             = Cardinality(ReservedAt(out.val, kw_ccv3))
        /\ SameOutcome(read_metadata(again.val), read_metadata(out.val))

\* the second of two consecutive writes of the same JSON object
C2_Witness ==
    /\ op = "write" /\ out.kind = "return" /\ IsJsonObject(data)
    /\ src = write_metadata(src, data).val
    /\ Cardinality(ReservedAt(image, kw_chara)) = 1
    /\ Cardinality(ReservedAt(image, kw_ccv3)) = 1

\* ------------------------------------------------------------------------
\* C3  Malformed signature: on a buffer that does not start with the PNG
\* signature read_metadata and write_metadata both raise a format error;
\* neither returns None, a text or a buffer.
\* ------------------------------------------------------------------------
C3_MalformedSignature ==
    (op \in {"read", "write"} /\ src.head # PngSignature) =>
        /\ out.kind = "raise"
        /\ out.val \in FormatErrors
        /\ image = src

\* write_metadata was called on a JPEG buffer whose frames would parse
C3_Witness ==
    /\ op = "write" /\ src.head = JpegHead /\ src.frames # <<>>
    /\ out.kind = "raise"

\* ------------------------------------------------------------------------
\* C4  Read selection: on a valid container read_metadata returns the
\* decoded payload of the ccv3 chunk when one exists (keyword compared
\* case-insensitively, the last such chunk when there are several), else
\* that of the chara chunk when one exists, else None without raising.
\* ------------------------------------------------------------------------
C4_ReadSelection ==
    (op = "read" /\ IsValidContainer(src)) =>
        IF ReservedAt(src, kw_ccv3) # {}
        THEN /\ out.kind # "none"
             /\ out.kind = "return" => out.val = Decoded(LastText(src, kw_ccv3))
             /\ Decodes(LastText(src, kw_ccv3)) => out.kind = "return"
        ELSE IF ReservedAt(src, kw_chara) # {}
        THEN /\ out.kind # "none"
             /\ out.kind = "return" => out.val = Decoded(LastText(src, kw_chara))
             /\ Decodes(LastText(src, kw_chara)) => out.kind = "return"
        ELSE out.kind = "none"

\* a card with a chara chunk followed by an upper-case CCV3 chunk was read
\* and the CCV3 payload came back
C4_Witness ==
    /\ op = "read" /\ IsValidContainer(src)
    /\ ReservedAt(src, kw_chara) # {} /\ ReservedAt(src, kw_ccv3) # {}
    /\ src.frames[Max(ReservedAt(src, kw_ccv3))].data
         = _encode_text_chunk(kw_CCV3, Encoded(D_old_V3))
    /\ SameOutcome(out, Returned(D_old_V3))

\* ------------------------------------------------------------------------
\* C5  A reserved payload that does not decode is fatal: when the ccv3
\* chunk read_metadata selects fails Base64 or UTF-8 decoding the call
\* raises ValueError, also when a decodable chara chunk is present; the
\* same holds for the chara chunk when there is no ccv3 chunk.
\* ------------------------------------------------------------------------
C5_DecodeFailureFatal ==
    (op = "read" /\ IsValidContainer(src)) =>
        /\ (/\ ReservedAt(src, kw_ccv3) # {}
            /\ ~Decodes(LastText(src, kw_ccv3)))
              => SameOutcome(out, Raised("ValueError"))
        /\ (/\ ReservedAt(src, kw_ccv3) = {}
            /\ ReservedAt(src, kw_chara) # {}
            /\ ~Decodes(LastText(src, kw_chara)))
              => SameOutcome(out, Raised("ValueError"))

\* a read raised although the card held a chara chunk that decodes
C5_Witness ==
    /\ op = "read" /\ IsValidContainer(src)
    /\ ReservedAt(src, kw_ccv3) # {}
    /\ ReservedAt(src, kw_chara) # {}
    /\ ~Decodes(LastText(src, kw_ccv3))
    /\ Decodes(LastText(src, kw_chara))
    /\ SameOutcome(out, Raised("ValueError"))

Converted == op = "convert"

EntriesPaths == {"data.character_book.entries", "character_book.entries", "entries"}

\* the entry has an enabled field and its value is false
EnabledFalse(e) ==
    IsDict(e) /\ HasKey(e, k_enabled) /\ Get(e, k_enabled, JNull) = JBool(FALSE)

\* a field value that is an object, or a list with an object in it
ObjectValued(v) ==
    \/ IsDict(v)
    \/ (Tag(v) = "list" /\ \E j \in Indices(v[2]) : IsDict(v[2][j]))

\* no entries path, no entry-like key, no object- or list-of-object-valued field
NoShape(d) ==
    /\ IsDict(d)
    /\ \A path \in EntriesPaths : ~PathMatches(d, path)
    /\ ~LooksLikeEntry(d)
    /\ \A i \in Indices(d[2]) : ~ObjectValued(d[2][i][2])

\* both a data.character_book.entries list and a top-level entries map
HasBoth(d) == HasDataBookEntries(d) /\ IsDictAt(d, k_entries)

\* trigger i of the result is what process_entry makes of item j of l
DerivesFrom(i, l) ==
    \E j \in Indices(l) :
        /\ origin[i].entry = l[j]
        /\ yaml_data.trigger[i] = process_entry(origin[i].id, l[j])

\* the entries of the top-level entries map that process_entry turns into a Trigger
TopLevelHits(d) ==
    {j \in Indices(Get(d, k_entries, JNull)[2]) :
        process_entry(JNull, Get(d, k_entries, JNull)[2][j][2]).kind = "trigger"}

\* ------------------------------------------------------------------------
\* C7: after convert_json_to_yaml has run on a JSON object document the
\* trigger list of yaml_data is non-empty, and when extraction yields no
\* Trigger the list is exactly the fixed fallback Trigger (priority 50,
\* probability 1.0, position sys_start, block false).
\* Violated: a data.character_book.entries list with an item that is not
\* an object makes the call return False with an empty trigger list.
\* ------------------------------------------------------------------------
C7_NonEmptyTrigger ==
    Converted =>
        /\ Len(yaml_data.trigger) > 0
        /\ (Len(extract_entries_from_json(json_data, source_file).triggers) = 0
              => yaml_data.trigger = <<FallbackTrigger>>)

\* ------------------------------------------------------------------------
\* C8: converting a document of no recognisable shape succeeds with a
\* trigger list of exactly one Trigger, whose position scalar is sys_start
\* and whose probability is 1.0.
\* ------------------------------------------------------------------------
C8_FallbackGuarantee ==
    (Converted /\ NoShape(json_data)) =>
        /\ ret = "True"
        /\ Len(yaml_data.trigger) = 1
        /\ represent_scalar(yaml_data.trigger[1].position) = JStr(s_sys_start)
        /\ Tag(yaml_data.trigger[1].probability) = "float"
        /\ yaml_data.trigger[1].probability[2] = yaml_data.trigger[1].probability[3]

\* a converted document with fields but no shape, given with its file path
C8_Witness ==
    /\ Converted
    /\ NoShape(json_data)
    /\ Len(json_data[2]) > 0
    /\ source_file = src_path
    /\ Len(yaml_data.trigger) = 1
    /\ origin[1].case = "default"

\* ------------------------------------------------------------------------
\* C9: no Trigger of the resulting list was made from a source entry whose
\* enabled field is present and false, whichever branch of the extraction
\* found the entry.
\* ------------------------------------------------------------------------
C9_DisabledDrop ==
    Converted =>
        \A i \in DOMAIN yaml_data.trigger :
            /\ i \in DOMAIN origin
            /\ origin[i].case # "fallback"
                 => /\ ~EnabledFalse(origin[i].entry)
                    /\ yaml_data.trigger[i] = process_entry(origin[i].id, origin[i].entry)

\* a list with a disabled entry and an enabled one was converted: only the
\* enabled one gave a Trigger
C9_Witness ==
    /\ Converted
    /\ HasDataBookEntries(json_data)
    /\ \E j \in Indices(DataBookEntries(json_data)) : EnabledFalse(DataBookEntries(json_data)[j])
    /\ Len(DataBookEntries(json_data)) = 2
    /\ Len(yaml_data.trigger) = 1
    /\ origin[1].case = "data.character_book.entries"

\* ------------------------------------------------------------------------
\* C10 (as stated): for a document with both a data.character_book.entries
\* list and a top-level entries map, every Trigger of the result derives
\* from an entry of data.character_book.entries.
\* Violated when that list yields no Trigger: the result then holds the
\* fixed fallback Trigger, which derives from no entry.
\* ------------------------------------------------------------------------
C10_AsStated ==
    (Converted /\ HasBoth(json_data)) =>
        \A i \in DOMAIN yaml_data.trigger :
            /\ origin[i].case = "data.character_book.entries"
            /\ DerivesFrom(i, DataBookEntries(json_data))

\* ------------------------------------------------------------------------
\* C10 (amended): for such a document no Trigger of the result derives
\* from the top-level entries map: every Trigger derives from an entry of
\* data.character_book.entries, or is the single fixed fallback Trigger
\* that is added when that list has yielded no Trigger.
\* ------------------------------------------------------------------------
C10_CascadePriority ==
    (Converted /\ HasBoth(json_data)) =>
        \/ \A i \in DOMAIN yaml_data.trigger :
               /\ origin[i].case = "data.character_book.entries"
               /\ DerivesFrom(i, DataBookEntries(json_data))
        \/ /\ yaml_data.trigger = <<FallbackTrigger>>
           /\ origin[1].case = "fallback"
           /\ \A j \in Indices(DataBookEntries(json_data)) :
                  process_entry(JNull, DataBookEntries(json_data)[j]).kind = "none"

\* both collections hold an entry that converts; only the list's is in the result
C10_Witness ==
    /\ Converted
    /\ HasBoth(json_data)
    /\ TopLevelHits(json_data) # {}
    /\ Len(yaml_data.trigger) > 0
    /\ origin[1].case = "data.character_book.entries"

\* ------------------------------------------------------------------------
\* Vocabulary of the process_entry properties
\* ------------------------------------------------------------------------
ProcessedEntry == op = "process_entry"

\* an object entry that is not disabled
EnabledObject(e) == IsDict(e) /\ (HasKey(e, k_enabled) => Get(e, k_enabled, JNull) = JBool(TRUE))

\* a JSON number, or a text that reads as a number
IsNumericValue(v) == Tag(v) = "num" \/ (Tag(v) = "str" /\ FloatOfStr(v[2]).kind = "ok")

NumberOf(v) == IF Tag(v) = "num" THEN v[2] ELSE FloatOfStr(v[2]).n

\* the field k of the entry as a number, d when it is absent or not numeric
NumberAt(e, k, d) ==
    IF HasKey(e, k) /\ IsNumericValue(Get(e, k, JNull)) THEN NumberOf(Get(e, k, JNull)) ELSE d

\* the entry has none of the fields of ks
Without(e, ks) == \A k \in ks : ~HasKey(e, k)

\* ------------------------------------------------------------------------
\* C11: an enabled object entry yields a Trigger whose priority is
\* 100 - insertion_order, unclamped, with 100 standing in for an
\* insertion_order that is absent or not numeric (priority 0).  Stated for
\* entries without position and extensions, so that insertion_order alone
\* decides.
\* Violated: an insertion_order of null, a list or an object makes float()
\* raise TypeError, which only the handler around the whole of
\* process_entry catches, and the entry is dropped.
\* ------------------------------------------------------------------------
C11_PriorityFormula ==
    (ProcessedEntry /\ EnabledObject(entry) /\ Without(entry, {k_position, k_extensions})) =>
        /\ trigger.kind = "trigger"
        /\ Hundredths(trigger.priority) = (100 - NumberAt(entry, k_insertion_order, 100)) * 100

\* clamp(n, 0, 100)
Clamped(n) == IF n < 0 THEN 0 ELSE IF n > 100 THEN 100 ELSE n

\* extensions.probability of the entry as a number, 100 when there is none
ProbabilityOf(e) ==
    IF HasKey(e, k_extensions)
    THEN NumberAt(Get(e, k_extensions, JNull), k_probability, 100)
    ELSE 100

\* the float x is n / 100
IsHundredths(x, n) == Tag(x) = "float" /\ x[3] > 0 /\ x[2] * 100 = n * x[3]

\* ------------------------------------------------------------------------
\* C12: every Trigger of every converted Document has a probability
\* between 0 and 1; a Trigger made from an entry has
\* clamp(extensions.probability, 0, 100) / 100, with 100 when the entry
\* gives none, and the fallback Trigger has 1.0.
\* ------------------------------------------------------------------------
C12_ProbabilityClamp ==
    Converted =>
        \A i \in DOMAIN yaml_data.trigger :
            /\ Tag(yaml_data.trigger[i].probability) = "float"
            /\ 0 <= yaml_data.trigger[i].probability[2]
            /\ yaml_data.trigger[i].probability[2] <= yaml_data.trigger[i].probability[3]
            /\ IsHundredths(yaml_data.trigger[i].probability,
                            IF origin[i].case = "fallback" THEN 100
                            ELSE Clamped(ProbabilityOf(origin[i].entry)))

\* a list with an entry of probability 150 and one of probability -10 was
\* converted: the Triggers have 1.0 and 0.0
C12_Witness ==
    /\ Converted
    /\ Len(yaml_data.trigger) = 2
    /\ ProbabilityOf(origin[1].entry) = 150
    /\ IsHundredths(yaml_data.trigger[1].probability, 100)
    /\ ProbabilityOf(origin[2].entry) = -10
    /\ IsHundredths(yaml_data.trigger[2].probability, 0)

\* ------------------------------------------------------------------------
\* Vocabulary of the summary property
\* ------------------------------------------------------------------------
Extracted == op = "extract"

\* what source i of SourceKeys gives when it is populated: the value itself
\* (first_mes, greeting, char_greeting, a begin_dialogs text) or the first
\* element of the list
Populated(d, i) ==
    /\ HasKey(d, SourceKeys[i])
    /\ Truthy(Get(d, SourceKeys[i], JNull))
    /\ (i \in {4, 6} => Tag(Get(d, SourceKeys[i], JNull)) = "list")
    /\ (i = 2 => Tag(Get(d, SourceKeys[i], JNull)) \in {"list", "str"})

ValueOfSource(d, i) ==
    IF Tag(Get(d, SourceKeys[i], JNull)) = "list"
    THEN Get(d, SourceKeys[i], JNull)[2][1]
    ELSE Get(d, SourceKeys[i], JNull)

PopulatedSources(d) == {i \in 1..6 : Populated(d, i)}

Min(S) == CHOOSE m \in S : \A x \in S : m <= x

\* the value of the first populated source, the empty text when there is none
FirstPopulated(d) ==
    IF PopulatedSources(d) = {} THEN JStr(<<>>)
    ELSE ValueOfSource(d, Min(PopulatedSources(d)))

\* ------------------------------------------------------------------------
\* C13: the first_mes of the summary is the value of the first populated
\* source in the order first_mes, begin_dialogs, greeting, example_dialog,
\* char_greeting, alternate_greetings; a source that is present but empty
\* does not keep a later populated source from being used.
\* Violated: a first_mes, begin_dialogs, greeting or char_greeting that is
\* present ends the probing even when it is empty.
\* ------------------------------------------------------------------------
C13_FirstMesResolution ==
    Extracted =>
        txt_content = SummaryText(PyStr(Get(json_data, k_name, JStr(<<>>))),
                                  PyStr(Get(json_data, k_description, JStr(<<>>))),
                                  PyStr(FirstPopulated(json_data)))

\* ------------------------------------------------------------------------
\* Vocabulary of the cascade property
\* ------------------------------------------------------------------------
PathOrder == <<"data.character_book.entries", "character_book.entries", "entries">>

\* the number of candidates the entries path i has in the document
NumCandidates(d, i) ==
    IF ~PathMatches(d, PathOrder[i]) THEN 0
    ELSE CASE i = 1 -> Len(DataBookEntries(d))
           [] i = 2 -> Len(BookEntries(d))
           [] i = 3 -> Len(Get(d, k_entries, JNull)[2])

YieldingPaths(d) == {i \in 1..3 : NumCandidates(d, i) > 0}

\* the extraction that goes on to the next shape until one has a candidate
ExtractFirstYielding(d, src_file) ==
    IF YieldingPaths(d) = {} THEN ExtractByShape(d, src_file)
    ELSE ExtractPath(d, PathOrder[Min(YieldingPaths(d))])

\* ------------------------------------------------------------------------
\* C14: the shapes are tried in priority order until one yields at least
\* one candidate: an entries path that is there but empty does not end the
\* search, the next path or shape is tried.
\* Violated: an entries path that matches returns at once, so an empty
\* data.character_book.entries list hides a top-level entries map.
\* ------------------------------------------------------------------------
C14_CascadeFallThrough ==
    Converted =>
        yaml_data = Converted_from(ExtractFirstYielding(json_data, source_file)).yaml_data

\* ------------------------------------------------------------------------
\* Vocabulary of the isolation property
\* ------------------------------------------------------------------------
\* the entries path the extraction takes: the first that matches
MatchingPaths(d) == {i \in 1..3 : PathMatches(d, PathOrder[i])}

\* every item of data.character_book.entries as a candidate, an item that
\* is not an object under its index
AllDataBookCandidates(d) ==
    [i \in Indices(DataBookEntries(d)) |->
        Candidate("data.character_book.entries",
                  IF IsDict(DataBookEntries(d)[i])
                  THEN Get(DataBookEntries(d)[i], k_id, JNum(i - 1))
                  ELSE JNum(i - 1),
                  DataBookEntries(d)[i])]

\* the extraction along the taken path when every entry is dropped alone
ExtractIsolated(d) ==
    IF Min(MatchingPaths(d)) = 1 THEN Processed(AllDataBookCandidates(d))
    ELSE ExtractPath(d, PathOrder[Min(MatchingPaths(d))])

\* ------------------------------------------------------------------------
\* C15: on every entries path an entry that is not an object, or whose
\* normalization raises, is dropped alone: convert succeeds and the trigger
\* list holds the Triggers of the remaining enabled valid entries in their
\* order (the fallback Trigger when there is none).
\* Violated: an item of data.character_book.entries that is not an object
\* aborts the whole conversion.
\* ------------------------------------------------------------------------
C15_FailureIsolation ==
    (Converted /\ MatchingPaths(json_data) # {}) =>
        /\ ret = "True"
        /\ yaml_data = Converted_from(ExtractIsolated(json_data)).yaml_data

\* ------------------------------------------------------------------------
\* Vocabulary of the chunk-sequence property
\* ------------------------------------------------------------------------
\* index of the first end-marker frame of the buffer, 0 when there is none
EndMarker(buf) ==
    IF \E i \in Indices(buf.frames) : buf.frames[i].type = "IEND"
    THEN Min({i \in Indices(buf.frames) : buf.frames[i].type = "IEND"})
    ELSE 0

\* the chunk sequence of the buffer: its frames up to the end-marker
InputChunks(buf) ==
    [i \in 1..(IF EndMarker(buf) = 0 THEN Len(buf.frames) ELSE EndMarker(buf)) |->
        <<buf.frames[i].type, buf.frames[i].data>>]

\* the signature is right and every frame of the chunk sequence is sound
WellFramed(buf) ==
    /\ buf.head = PngSignature
    /\ \A i \in Indices(InputChunks(buf)) :
         /\ buf.frames[i].length = Len(buf.frames[i].data)
         /\ buf.frames[i].crc = Crc32(buf.frames[i].type, buf.frames[i].data)

\* a text chunk whose keyword, lower-cased, is chara or ccv3
ReservedChunk(c) ==
    /\ c[1] = "tEXt"
    /\ \E p \in Indices(c[2]) :
         /\ c[2][p] = 0
         /\ \A j \in 1..(p - 1) : c[2][j] # 0
         /\ lower(SubSeq(c[2], 1, p - 1)) \in {kw_chara, kw_ccv3}

OtherChunk(c) == ~ReservedChunk(c)

\* outp is kept with the new chara chunk for D, then possibly a new ccv3
\* chunk, put in after the first `before` chunks of kept
InsertedAfter(before, kept, outp, D) ==
    /\ Len(outp) - Len(kept) \in {1, 2}
    /\ Len(outp) - Len(kept) = 2 <=> IsJsonObject(D)
    /\ \A i \in 1..before : outp[i] = kept[i]
    /\ outp[before + 1] = TextChunk(kw_chara, Encoded(D))
    /\ Len(outp) - Len(kept) = 2 =>
         /\ outp[before + 2] # outp[before + 1]
         /\ ReservedChunk(outp[before + 2])
         /\ SubSeq(outp[before + 2][2], 1, Len(kw_ccv3) + 1) = kw_ccv3 \o <<0>>
    /\ \A i \in (before + 1)..Len(kept) : outp[i + Len(outp) - Len(kept)] = kept[i]

\* the output of the write is the input without its reserved chunks, with
\* the new chunks before the end-marker, or at the end when there is none
SequenceAsSpecified ==
    /\ out.kind = "return"
    /\ out.val.head = PngSignature
    /\ Len(out.val.frames) = Len(InputChunks(out.val))
    /\ \A i \in Indices(out.val.frames) : out.val.frames[i] = Frame(InputChunks(out.val)[i])
    /\ InsertedAfter(IF EndMarker(src) = 0
                     THEN Len(SelectSeq(InputChunks(src), OtherChunk))
                     ELSE Len(SelectSeq(InputChunks(src), OtherChunk)) - 1,
                     SelectSeq(InputChunks(src), OtherChunk),
                     InputChunks(out.val), data)

EndPosition(e) ==
    HasKey(e, k_position)
      /\ Get(e, k_position, JNull) \in {JNum(1), JStr(s_1), JStr(s_after_prompt)}

\* the position written to the YAML file for the trigger
PositionOf(t) == represent_scalar(t.position)

\* ------------------------------------------------------------------------
\* C17: the position mapping is total: every enabled object entry yields a
\* Trigger, whatever its position is, whose position is sys_end exactly when
\* the entry's position is 1, "1" or "after_prompt", and sys_start for every
\* other value of any JSON type.  Stated for entries without insertion_order
\* and extensions, so that position alone decides.
\* Violated: a position that is a list or an object cannot be looked up in
\* the table and the entry is dropped; the position true gives sys_end.
\* ------------------------------------------------------------------------
C17_PositionTotal ==
    (ProcessedEntry /\ EnabledObject(entry)
       /\ Without(entry, {k_insertion_order, k_extensions})) =>
        /\ trigger.kind = "trigger"
        /\ PositionOf(trigger) = (IF EndPosition(entry) THEN JStr(s_sys_end) ELSE JStr(s_sys_start))

\* ------------------------------------------------------------------------
\* Vocabulary of the match property
\* ------------------------------------------------------------------------
MadeTrigger == ProcessedEntry /\ trigger.kind = "trigger"

\* keys or secondary_keys as a list: a text alone, a list as it is, the
\* member names of an object, the text of any other value
KeyList(v) ==
    CASE Tag(v) = "str" -> <<v>>
      [] Tag(v) = "list" -> v[2]
      [] Tag(v) = "obj" -> [i \in Indices(v[2]) |-> JStr(v[2][i][1])]
      [] OTHER -> <<JStr(PyStr(v))>>

KeysOf(e) == Get(e, k_keys, JList(<<>>))

SecondaryOf(e) == Get(e, k_secondary_keys, JList(<<>>))

\* every element of the list as text, with & between them
AllJoined(xs) == Join(<<38>>, [i \in Indices(xs) |-> PyStr(xs[i])])

\* the elements of the list that are not empty, zero, false or null, as
\* text, with & between them
RECURSIVE GivenJoined(_)
GivenJoined(xs) ==
    IF xs = <<>> THEN <<>>
    ELSE IF ~Truthy(Head(xs)) THEN GivenJoined(Tail(xs))
    ELSE IF GivenJoined(Tail(xs)) = <<>> THEN PyStr(Head(xs))
    ELSE PyStr(Head(xs)) \o <<38>> \o GivenJoined(Tail(xs))

SecondaryJoined(e) ==
    IF Truthy(SecondaryOf(e)) THEN GivenJoined(KeyList(SecondaryOf(e))) ELSE <<>>

MatchOf(t) == represent_scalar(t.match)

\* ------------------------------------------------------------------------
\* C18 as stated: a Trigger's match is the primary keys joined by '&',
\* followed by '~' and the secondary keys joined by '&' when secondary keys
\* are given, keys and secondary_keys each coerced to a list of strings.
\* Violated: empty, zero and null elements are left out of both lists; no
\* primary key gives an empty match whatever the secondary keys are; a
\* secondary list with no usable element adds no '~'.
\* ------------------------------------------------------------------------
C18_AsStated ==
    MadeTrigger =>
        MatchOf(trigger) =
            JStr(AllJoined(KeyList(KeysOf(entry)))
                   \o (IF KeyList(SecondaryOf(entry)) # <<>>
                       THEN <<126>> \o AllJoined(KeyList(SecondaryOf(entry)))
                       ELSE <<>>))

\* ------------------------------------------------------------------------
\* C18: a Trigger's match is empty when keys is absent, empty, zero or
\* null.  Otherwise it is the primary keys joined by '&', followed by '~'
\* and the secondary keys joined by '&' when both joined texts are not
\* empty; keys and secondary_keys are each first coerced to a list (a text
\* alone, a list as it is, the member names of an object, the text of any
\* other value), and elements that are empty, zero, false or null are left
\* out of the join.
\* ------------------------------------------------------------------------
C18_MatchConstruction ==
    MadeTrigger =>
        MatchOf(trigger) =
            JStr(IF ~Truthy(KeysOf(entry)) THEN <<>>
                 ELSE IF GivenJoined(KeyList(KeysOf(entry))) # <<>> /\ SecondaryJoined(entry) # <<>>
                 THEN GivenJoined(KeyList(KeysOf(entry))) \o <<126>> \o SecondaryJoined(entry)
                 ELSE GivenJoined(KeyList(KeysOf(entry))))

\* keys ["", "k", 0] with the secondary key "no" gave the match k~no
C18_Witness ==
    /\ MadeTrigger
    /\ KeysOf(entry) = JList(<<JStr(<<>>), JStr(<<107>>), JNum(0)>>)
    /\ SecondaryOf(entry) = JStr(<<110, 111>>)
    /\ MatchOf(trigger) = JStr(<<107, 126, 110, 111>>)

\* ------------------------------------------------------------------------
\* Vocabulary of the last-write property
\* ------------------------------------------------------------------------
\* the text is a JSON object equal to the one of D with spec and
\* spec_version set to the v3 values
DerivedV3(text, D) ==
    /\ IsJsonObject(text)
    /\ IsJsonObject(D)
    /\ Get(json_loads(text).v, k_spec, JNull) = JStr(s_chara_card_v3)
    /\ Get(json_loads(text).v, k_spec_version, JNull) = JStr(s_3_0)
    /\ Canon(WithoutSpec(json_loads(text).v)) = Canon(WithoutSpec(json_loads(D).v))

\* the reserved chunks of the buffer are those of a write of D
HoldsOnly(buf, D) ==
    /\ Cardinality(ReservedAt(buf, kw_chara)) = 1
    /\ LastText(buf, kw_chara) = Encoded(D)
    /\ Cardinality(ReservedAt(buf, kw_ccv3)) = (IF IsJsonObject(D) THEN 1 ELSE 0)
    /\ ReservedAt(buf, kw_ccv3) # {} =>
         /\ Decodes(LastText(buf, kw_ccv3))
         /\ DerivedV3(Decoded(LastText(buf, kw_ccv3)), D)

\* r is what a read gives after a write of D
ReadsBack(r, D) ==
    /\ r.kind = "return"
    /\ IF IsJsonObject(D) THEN DerivedV3(r.val, D) ELSE r.val = D

====
